---- MODULE Spec2Model ----
(***************************************************************************)
(* The relationship Graph of the record-data package: the per-store graph  *)
(* registry (graphFor), the lazily created Relationships containers and    *)
(* implicit dictionaries (Graph.get / Graph.getImplicit), the queue of     *)
(* canonical updates (Graph.push) and its batched application              *)
(* (Graph.flush), and the lookup helpers of record-data-for.               *)
(*                                                                         *)
(* JavaScript objects live in one heap, a function from references to      *)
(* objects.  A reference is the address `new` returned: it names the kind  *)
(* of object, the arguments of the allocating call and a serial number     *)
(* that makes it differ from every reference allocated before, so that     *)
(* reference equality of the program is equality of addresses and the      *)
(* same object graph has the same addresses in whatever order its objects  *)
(* were allocated.                                                         *)
(***************************************************************************)
EXTENDS Integers, Sequences, FiniteSets, TLC

\* ---------------------------------------------------------------- bounds
\* Number of Graph.push calls a behaviour makes where the queue is examined.
MaxPushes == 3
\* Number of Graph.push calls a behaviour makes where the lookups are examined.
MaxLookupPushes == 1
\* Number of Graph.push calls a behaviour makes where the members are examined.
MaxDataPushes == 2
\* Number of Graph.push calls a behaviour makes where the local edits are examined.
MaxLocalPushes == 1
\* Number of RecordData objects a behaviour creates.
MaxRecordDatas == 2
\* Number of Graph.push calls a behaviour makes from outside a flush where
\* pushes made during a flush are examined.
MaxOuterPushes == 2
\* Number of Graph.push calls a behaviour makes where updates that throw are
\* examined.
MaxThrowingPushes == 3
\* The records that are made, and can be unloaded, in one behaviour.
MaxRecords == 1

\* ---------------------------------------------------------------- inputs
\* RecordDataStoreWrapper objects; each store owns exactly one wrapper, and
\* the wrapper stands for storeWrapper._store and its _backburner as well.
Stores == {"s1", "s2"}

\* StableRecordIdentifier objects (compared by reference).
Identifiers == {"post1", "comment10"}

\* Relationship names of the schema, and the kind the schema gives each.
Names == {"comments", "post"}

KindOf(propertyName) == IF propertyName = "comments" THEN "hasMany" ELSE "belongsTo"

\* The inverse the schema declares for each relationship: post.comments and
\* comment.post are each other's inverse.
InverseOf(propertyName) == IF propertyName = "comments" THEN "post" ELSE "comments"

\* The comments a post's to-many relationship is given as members.
Comments == {"comment10", "comment11"}

\* Identifiers the identifier cache allocates, named by the local id it
\* generates for each: the k-th identifier it makes gets the k-th of them.
LidsInOrder == <<"@lid1", "@lid2", "@lid3">>

Lids == {LidsInOrder[k] : k \in DOMAIN LidsInOrder}

\* Entity types (model names) and server ids of resources.
Types == {"post", "comment"}

Ids == {"1"}

\* The canary feature that gives records a stable identifier.
IDENTIFIERS == TRUE

\* Every identifier object a graph can be asked about.
StableRecordIdentifiers == Identifiers \cup Comments \cup Lids

\* Relationship payloads are opaque documents, never inspected by the graph:
\* the k-th push of a behaviour carries document k.
NoPayload == 0

\* A falsy identifier or property name (an argument left out).
Missing == ""

\* null, where an identifier or an id is expected.
Null == ""

\* `undefined`, where a reference is expected.
Undefined == [tag |-> "undefined", store |-> "", identifier |-> "", key |-> "", n |-> 0]

VARIABLES
  Graphs,      \* the WeakMap store wrapper -> Graph
  heap,        \* all objects: Graph, Relationships, RelationshipDict, Relationship
  backburner,  \* per store: the targets scheduled in the 'flushRelationships' queue
  applied,     \* history: every (relationship, payload) handed to Relationship.push, in order
  pushed,      \* history: every Graph.push call made by a caller of the graph, in order
  lastFlush,   \* history: the most recent run of Graph.flush
  call,        \* the operation that ran last, with its arguments
  ret          \* what it returned

vars == <<Graphs, heap, backburner, applied, pushed, lastFlush, call, ret>>

\* The memory an operation works on; it returns the memory it leaves.
Mem == [Graphs |-> Graphs, heap |-> heap, backburner |-> backburner,
        applied |-> applied, ret |-> Undefined]

\* ---------------------------------------------------------------- objects
\* The address of a new object of kind `tag` allocated for (store, identifier, key).
Address(h, tag, store, identifier, key) ==
  [tag |-> tag, store |-> store, identifier |-> identifier, key |-> key,
   n |-> 1 + Cardinality({a \in DOMAIN h : /\ a.tag = tag
                                           /\ a.store = store
                                           /\ a.identifier = identifier
                                           /\ a.key = key})]

Alloc(m, address, object) ==
  [m EXCEPT !.heap = (address :> object) @@ @, !.ret = address]

EmptyQueued == [belongsTo |-> <<>>, hasMany |-> <<>>]

NewGraph(storeWrapper) ==
  [storeWrapper |-> storeWrapper, _queued |-> EmptyQueued, _nextFlush |-> FALSE,
   identifiers |-> [i \in StableRecordIdentifiers |-> Undefined],
   implicitMap |-> [i \in StableRecordIdentifiers |-> Undefined]]

NewRelationships(graph, identifier) ==
  [graph |-> graph, identifier |-> identifier,
   initializedRelationships |-> [n \in Names |-> Undefined]]

NewRelationshipDict == [entries |-> [n \in Names |-> Undefined]]

\* A Relationship: canonicalState is the document applied last,
\* canonicalMembers the server-confirmed members in response order (at most
\* one for a to-one relationship), localAdded and localRemoved the local
\* overlay; isDestroyed is set when the record that owns it is unloaded.
NewRelationship(graph, identifier, key) ==
  [graph |-> graph, identifier |-> identifier, key |-> key, kind |-> KindOf(key),
   canonicalState |-> NoPayload,
   canonicalMembers |-> <<>>, hasReceivedCanonical |-> FALSE,
   localAdded |-> <<>>, localRemoved |-> <<>>, isDirty |-> FALSE,
   isDestroyed |-> FALSE]

\* The address of the payload document numbered `payload`.
Document(payload) ==
  [tag |-> "Document", store |-> "", identifier |-> "", key |-> "", n |-> payload]

\* A payload document: its member list `data` when hasData, links and meta
\* only when not.  A malformed document is one the relationship refuses with
\* an error.  `then` is what the code notified of the update does while the
\* update is applied: nothing, or a Graph.push for (identifier, name).
NewDocument(hasData, data) ==
  [hasData |-> hasData, data |-> data, malformed |-> FALSE, then |-> <<>>]

\* The payload of the push made from inside the update that applies `payload`.
FollowUp == 10

ThenPayload(payload) == payload + FollowUp

\* Errors thrown to the caller.
StaleReference == [tag |-> "Error", store |-> "", identifier |-> "",
                   key |-> "stale reference", n |-> 0]

MalformedPayload == [tag |-> "Error", store |-> "", identifier |-> "",
                     key |-> "malformed payload", n |-> 0]

\* Whether the call that left memory m threw.
Thrown(m) == m.ret.tag = "Error"

Refs == DOMAIN heap

GraphRefs == {g \in Refs : g.tag = "Graph"}

RelationshipsRefs == {c \in Refs : c.tag = "Relationships"}

RelationshipRefs == {r \in Refs : r.tag = "Relationship"}

\* ---------------------------------------------------------------- graph.ts
\* A graphFor that hands every store the graph made first.
graphFor_shared(m, store) ==
  LET graphs == {g \in DOMAIN m.heap : g.tag = "Graph"} IN
  IF graphs = {}
    THEN LET new == Address(m.heap, "Graph", store, "", "") IN
         [Alloc(m, new, NewGraph(store)) EXCEPT !.Graphs[store] = new]
    ELSE [m EXCEPT !.ret = CHOOSE g \in graphs : TRUE]

graphFor(m, store) ==
  LET graph == m.Graphs[store] IN
  IF graph = Undefined
    THEN LET new == Address(m.heap, "Graph", store, "", "") IN
         [Alloc(m, new, NewGraph(store)) EXCEPT !.Graphs[store] = new]
    ELSE [m EXCEPT !.ret = graph]

\* A get that makes a new container on every call.
Graph_get_uncached(m, this, identifier) ==
  LET new == Address(m.heap, "Relationships", this.store, identifier, "") IN
  [Alloc(m, new, NewRelationships(this, identifier))
     EXCEPT !.heap[this].identifiers[identifier] = new]

\* A get that makes the implicit dictionary of the identifier along with its
\* container.
Graph_get_withImplicit(m, this, identifier) ==
  LET relationships == m.heap[this].identifiers[identifier] IN
  IF relationships = Undefined
    THEN LET new == Address(m.heap, "Relationships", this.store, identifier, "")
             dict == Address(m.heap, "RelationshipDict", this.store, identifier, "")
             a == Alloc(m, dict, NewRelationshipDict)
         IN [Alloc(a, new, NewRelationships(this, identifier))
               EXCEPT !.heap[this].identifiers[identifier] = new,
                      !.heap[this].implicitMap[identifier] = dict]
    ELSE [m EXCEPT !.ret = relationships]

Graph_get(m, this, identifier) ==
  LET relationships == m.heap[this].identifiers[identifier] IN
  IF relationships = Undefined
    THEN LET new == Address(m.heap, "Relationships", this.store, identifier, "") IN
         [Alloc(m, new, NewRelationships(this, identifier))
            EXCEPT !.heap[this].identifiers[identifier] = new]
    ELSE [m EXCEPT !.ret = relationships]

\* A getImplicit that keeps its dictionaries in the identifiers map.
Graph_getImplicit_inIdentifiers(m, this, identifier) ==
  LET relationships == m.heap[this].identifiers[identifier] IN
  IF relationships = Undefined
    THEN LET new == Address(m.heap, "RelationshipDict", this.store, identifier, "") IN
         [Alloc(m, new, NewRelationshipDict)
            EXCEPT !.heap[this].identifiers[identifier] = new]
    ELSE [m EXCEPT !.ret = relationships]

Graph_getImplicit(m, this, identifier) ==
  LET relationships == m.heap[this].implicitMap[identifier] IN
  IF relationships = Undefined
    THEN LET new == Address(m.heap, "RelationshipDict", this.store, identifier, "") IN
         [Alloc(m, new, NewRelationshipDict)
            EXCEPT !.heap[this].implicitMap[identifier] = new]
    ELSE [m EXCEPT !.ret = relationships]

\* Relationships.get(propertyName) of ./create: the named Relationship,
\* materialized on first access with the kind the schema declares.
Relationships_get(m, this, propertyName) ==
  LET relationship == m.heap[this].initializedRelationships[propertyName] IN
  IF relationship = Undefined
    THEN LET new == Address(m.heap, "Relationship", this.store, this.identifier,
                            propertyName) IN
         [Alloc(m, new, NewRelationship(m.heap[this].graph, m.heap[this].identifier,
                                        propertyName))
            EXCEPT !.heap[this].initializedRelationships[propertyName] = new]
    ELSE [m EXCEPT !.ret = relationship]

\* ---------------------------------------------------------------- relationship state
Members(seq) == {seq[k] : k \in DOMAIN seq}

Remove(seq, x) == SelectSeq(seq, LAMBDA y : y # x)

Add(seq, x) == IF x \in Members(seq) THEN seq ELSE Append(seq, x)

\* The inverse Relationship of `this` on `member`, located through the graph
\* (and materialized there if this is its first lookup).
inverseFor(m, this, member) ==
  LET a == Graph_get(m, m.heap[this].graph, member)
  IN Relationships_get(a, a.ret, InverseOf(m.heap[this].key))

\* The symmetric canonical update on the inverse side: `owner` becomes
\* (op = "add") or stops being (op = "remove") a canonical member of `this`.
\* It is applied directly; nothing is queued.
\* A local add or remove that the canonical state now confirms leaves the overlay.
updateCanonicalOwn(m, this, op, owner) ==
  [m EXCEPT !.heap[this].canonicalMembers =
              IF op = "remove" THEN Remove(@, owner)
              ELSE IF m.heap[this].kind = "belongsTo" THEN <<owner>>
              ELSE Add(@, owner),
            !.heap[this].hasReceivedCanonical = TRUE,
            !.heap[this].localAdded = IF op = "remove" THEN @ ELSE Remove(@, owner),
            !.heap[this].localRemoved = IF op = "remove" THEN Remove(@, owner) ELSE @]

\* The symmetric canonical update on the inverse of every member from
\* position i on.
RECURSIVE updateCanonicalInverses(_, _, _, _, _)
updateCanonicalInverses(m, this, members, i, op) ==
  IF i > Len(members) THEN m
  ELSE LET a == inverseFor(m, this, members[i])
           b == updateCanonicalOwn(a, a.ret, op, m.heap[this].identifier)
       IN updateCanonicalInverses(b, this, members, i + 1, op)

\* updateCanonical(data): the canonical members become `data` (members absent
\* from it are removed, new ones added, in response order), and the inverse of
\* every removed and every added member is updated to match.
updateCanonical(m, this, data) ==
  LET old == m.heap[this].canonicalMembers
      removed == SelectSeq(old, LAMBDA x : x \notin Members(data))
      added == SelectSeq(data, LAMBDA x : x \notin Members(old))
      a == [m EXCEPT !.heap[this].canonicalMembers = data,
                     !.heap[this].hasReceivedCanonical = TRUE,
                     !.heap[this].localAdded =
                        SelectSeq(@, LAMBDA x : x \notin Members(data)),
                     !.heap[this].localRemoved =
                        SelectSeq(@, LAMBDA x : x \in Members(data))]
      b == updateCanonicalInverses(a, this, removed, 1, "remove")
  IN updateCanonicalInverses(b, this, added, 1, "add")

\* The current state: the canonical members that are not locally removed, in
\* canonical order, then the locally added members in the order they were added.
current(h, this) ==
  LET visible == SelectSeq(h[this].canonicalMembers,
                           LAMBDA x : x \notin Members(h[this].localRemoved))
  IN visible \o SelectSeq(h[this].localAdded, LAMBDA x : x \notin Members(visible))

\* The overlay of one side: x is added to `this` (a to-one relationship holds
\* x alone), or removed from it.
\* A local add that puts the new member in front of those added before.
localAddOwn_prepending(m, this, x) ==
  LET canonical == m.heap[this].canonicalMembers IN
  [m EXCEPT !.heap[this].localRemoved =
              IF m.heap[this].kind = "belongsTo"
                THEN SelectSeq(canonical, LAMBDA y : y # x)
                ELSE Remove(@, x),
            !.heap[this].localAdded =
              IF x \in Members(canonical) THEN Remove(@, x)
              ELSE IF m.heap[this].kind = "belongsTo" THEN <<x>>
              ELSE IF x \in Members(@) THEN @ ELSE <<x>> \o @,
            !.heap[this].isDirty = TRUE]

localAddOwn(m, this, x) ==
  LET canonical == m.heap[this].canonicalMembers IN
  [m EXCEPT !.heap[this].localRemoved =
              IF m.heap[this].kind = "belongsTo"
                THEN SelectSeq(canonical, LAMBDA y : y # x)
                ELSE Remove(@, x),
            !.heap[this].localAdded =
              IF x \in Members(canonical) THEN Remove(@, x)
              ELSE IF m.heap[this].kind = "belongsTo" THEN <<x>>
              ELSE Add(@, x),
            !.heap[this].isDirty = TRUE]

localRemoveOwn(m, this, x) ==
  [m EXCEPT !.heap[this].localAdded = Remove(@, x),
            !.heap[this].localRemoved =
              IF x \in Members(m.heap[this].canonicalMembers) THEN Add(@, x) ELSE @,
            !.heap[this].isDirty = TRUE]

\* The overlay of the inverse of every member from position i on is changed
\* to match, synchronously: the owner of `this` is added to it or removed from it.
RECURSIVE localInverses(_, _, _, _, _)
localInverses(m, this, members, i, op) ==
  IF i > Len(members) THEN m
  ELSE LET a == inverseFor(m, this, members[i])
           owner == m.heap[this].identifier
           b == IF op = "add" THEN localAddOwn(a, a.ret, owner)
                              ELSE localRemoveOwn(a, a.ret, owner)
       IN localInverses(b, this, members, i + 1, op)

\* A local add that leaves the inverse to the next flush.
localAdd_unmirrored(m, this, x) ==
  [localAddOwn(m, this, x) EXCEPT !.ret = Undefined]

\* localAdd(identifier) of a to-many relationship, and localSet(identifier) of
\* a to-one relationship, whose previous value loses the owner.  The
\* relationship of an unloaded record throws.
localAdd(m, this, x) ==
  LET displaced == IF m.heap[this].kind = "belongsTo"
                     THEN SelectSeq(current(m.heap, this), LAMBDA y : y # x)
                     ELSE <<>>
      a == localAddOwn(m, this, x)
      b == localInverses(a, this, displaced, 1, "remove")
  IN IF m.heap[this].isDestroyed THEN [m EXCEPT !.ret = StaleReference]
     ELSE [localInverses(b, this, <<x>>, 1, "add") EXCEPT !.ret = Undefined]

localRemove(m, this, x) ==
  LET a == localRemoveOwn(m, this, x)
  IN IF m.heap[this].isDestroyed THEN [m EXCEPT !.ret = StaleReference]
     ELSE [localInverses(a, this, <<x>>, 1, "remove") EXCEPT !.ret = Undefined]

\* localSet(identifier | null) of a to-one relationship.
RECURSIVE localRemoveEach(_, _, _, _)
localRemoveEach(m, this, members, i) ==
  IF i > Len(members) THEN m
  ELSE localRemoveEach(localRemove(m, this, members[i]), this, members, i + 1)

localSet(m, this, x) ==
  IF m.heap[this].isDestroyed THEN [m EXCEPT !.ret = StaleReference]
  ELSE IF x = Null
    THEN [localRemoveEach(m, this, current(m.heap, this), 1) EXCEPT !.ret = Undefined]
    ELSE localAdd(m, this, x)

\* The inverse Relationship of `this` on a member its overlay names (a local
\* edit has materialized it).
InverseRef(h, this, member) ==
  h[h[h[this].graph].identifiers[member]].initializedRelationships[InverseOf(h[this].key)]

\* rollback(): the overlay of each relationship of the worklist is discarded,
\* and the same is done to the inverse of every member its overlay named.
RECURSIVE rollbackEach(_, _)
\* A rollback that keeps what the overlay shows as the canonical state.
rollbackEach_committing(m, worklist) ==
  IF worklist = <<>> THEN m
  ELSE LET this == Head(worklist)
           touched == m.heap[this].localAdded \o m.heap[this].localRemoved
           a == [m EXCEPT !.heap[this].canonicalMembers = current(m.heap, this),
                          !.heap[this].localAdded = <<>>,
                          !.heap[this].localRemoved = <<>>,
                          !.heap[this].isDirty = FALSE]
       IN rollbackEach(a, Tail(worklist)
                            \o [k \in 1..Len(touched) |-> InverseRef(a.heap, this, touched[k])])

rollbackEach(m, worklist) ==
  IF worklist = <<>> THEN m
  ELSE LET this == Head(worklist)
           touched == m.heap[this].localAdded \o m.heap[this].localRemoved
           a == [m EXCEPT !.heap[this].localAdded = <<>>,
                          !.heap[this].localRemoved = <<>>,
                          !.heap[this].isDirty = FALSE]
       IN rollbackEach(a, Tail(worklist)
                            \o [k \in 1..Len(touched) |-> InverseRef(a.heap, this, touched[k])])

\* A rollback that discards the overlay of its own side only.
rollback_unmirrored(m, this) ==
  [m EXCEPT !.heap[this].localAdded = <<>>,
            !.heap[this].localRemoved = <<>>,
            !.heap[this].isDirty = FALSE,
            !.ret = Undefined]

rollback(m, this) ==
  IF m.heap[this].isDestroyed THEN [m EXCEPT !.ret = StaleReference]
  ELSE [rollbackEach(m, <<this>>) EXCEPT !.ret = Undefined]

\* Reading the current state of a relationship: the members it shows; the
\* relationship of an unloaded record throws.
Members_(seq) == [tag |-> "Members", members |-> seq]

read(m, this) ==
  IF m.heap[this].isDestroyed THEN [m EXCEPT !.ret = StaleReference]
  ELSE [m EXCEPT !.ret = Members_(current(m.heap, this))]

\* Graph.push is called from the code an update notifies.
RECURSIVE Graph_push(_, _, _, _, _)

\* A canonical update that reads a document without a member list as an
\* empty member list.
Relationship_push_linksAsEmpty(m, this, payload) ==
  LET a == [m EXCEPT !.heap[this].canonicalState = payload,
                     !.applied = Append(@, <<this, payload>>)]
      b == IF Document(payload) \in DOMAIN a.heap
             THEN updateCanonical(a, this, a.heap[Document(payload)].data)
             ELSE a
  IN [b EXCEPT !.ret = Undefined]

\* Relationship.push(payload) of ./relationship: the canonical update.  A
\* document without a member list (links or meta only) leaves the members as
\* they are.  The relationship of an unloaded record and a malformed document
\* throw, before anything is changed.  The code notified of the update runs
\* inside it.
Relationship_push(m, this, payload) ==
  LET known == Document(payload) \in DOMAIN m.heap
      a == [m EXCEPT !.heap[this].canonicalState = payload,
                     !.applied = Append(@, <<this, payload>>)]
      b == IF known /\ a.heap[Document(payload)].hasData
             THEN updateCanonical(a, this, a.heap[Document(payload)].data)
             ELSE a
      then == IF known THEN m.heap[Document(payload)].then ELSE <<>>
      c == IF then = <<>> THEN b
           ELSE Graph_push(b, b.heap[this].graph, then[1], then[2], ThenPayload(payload))
  IN IF m.heap[this].isDestroyed THEN [m EXCEPT !.ret = StaleReference]
     ELSE IF known /\ m.heap[Document(payload)].malformed
       THEN [m EXCEPT !.ret = MalformedPayload]
     ELSE [c EXCEPT !.ret = Undefined]

\* backburner.join(() => backburner.schedule('flushRelationships', target, target.flush)):
\* push is called inside a run loop of the store's backburner, so that join
\* runs its callback in that loop and schedule defers target.flush to the
\* loop's 'flushRelationships' queue.
schedule(m, store, target) ==
  [m EXCEPT !.backburner[store] = Append(@, target)]

\* A loop that goes on to the next update when one throws.
RECURSIVE PushEach_continuing(_, _, _)
PushEach_continuing(m, queue, i) ==
  IF i > Len(queue) THEN m
  ELSE PushEach_continuing(Relationship_push([m EXCEPT !.ret = Undefined],
                                             queue[i], queue[i + 1]),
                           queue, i + 2)

\* for (let i = 0; i < queue.length; i += 2) queue[i].push(queue[i + 1])
\* (positions are 1-based here); an update that throws ends the loop and
\* whatever called it.
RECURSIVE PushEach(_, _, _)
PushEach(m, queue, i) ==
  IF i > Len(queue) \/ Thrown(m) THEN m
  ELSE PushEach(Relationship_push(m, queue[i], queue[i + 1]), queue, i + 2)

\* The queue without the entries of `relationship`.
RECURSIVE Without(_, _)
Without(queue, relationship) ==
  IF Len(queue) < 2 THEN <<>>
  ELSE IF queue[1] = relationship
    THEN Without(SubSeq(queue, 3, Len(queue)), relationship)
    ELSE <<queue[1], queue[2]>> \o Without(SubSeq(queue, 3, Len(queue)), relationship)

\* A push that keeps only the latest payload of each relationship.
Graph_push_coalescing(m, this, identifier, propertyName, payload) ==
  LET a == Graph_get(m, this, identifier)
      b == Relationships_get(a, a.ret, propertyName)
      relationship == b.ret
      kind == b.heap[relationship].kind
      c == [b EXCEPT !.heap[this]._queued[kind] =
                        Without(@, relationship) \o <<relationship, payload>>,
                     !.ret = Undefined]
  IN IF c.heap[this]._nextFlush = FALSE
       THEN [schedule(c, c.heap[this].storeWrapper, this)
               EXCEPT !.heap[this]._nextFlush = TRUE]
       ELSE c

\* A push that hands the payload to the relationship at once.
Graph_push_synchronous(m, this, identifier, propertyName, payload) ==
  LET a == Graph_get(m, this, identifier)
      b == Relationships_get(a, a.ret, propertyName)
  IN Relationship_push(b, b.ret, payload)

\* A push that schedules a flush whether or not one is pending.
Graph_push_alwaysScheduling(m, this, identifier, propertyName, payload) ==
  LET a == Graph_get(m, this, identifier)
      b == Relationships_get(a, a.ret, propertyName)
      relationship == b.ret
      kind == b.heap[relationship].kind
      c == [b EXCEPT !.heap[this]._queued[kind] = @ \o <<relationship, payload>>,
                     !.ret = Undefined]
  IN [schedule(c, c.heap[this].storeWrapper, this) EXCEPT !.heap[this]._nextFlush = TRUE]

\* A push that runs the flush at once instead of scheduling it.
Graph_push_flushingAtOnce(m, this, identifier, propertyName, payload) ==
  LET a == Graph_get(m, this, identifier)
      b == Relationships_get(a, a.ret, propertyName)
      relationship == b.ret
      kind == b.heap[relationship].kind
      c == [b EXCEPT !.heap[this]._queued[kind] = @ \o <<relationship, payload>>,
                     !.ret = Undefined]
  IN IF c.heap[this]._nextFlush = FALSE
       THEN [PushEach(PushEach([c EXCEPT !.heap[this]._queued = EmptyQueued],
                               c.heap[this]._queued.hasMany, 1),
                      c.heap[this]._queued.belongsTo, 1)
               EXCEPT !.ret = Undefined]
       ELSE c

\* A push that drops a payload older than the one its relationship holds.
Graph_push_rejectingStale(m, this, identifier, propertyName, payload) ==
  LET a == Graph_get(m, this, identifier)
      b == Relationships_get(a, a.ret, propertyName)
      relationship == b.ret
      kind == b.heap[relationship].kind
      c == [b EXCEPT !.heap[this]._queued[kind] = @ \o <<relationship, payload>>,
                     !.ret = Undefined]
  IN IF payload < b.heap[relationship].canonicalState
       THEN [b EXCEPT !.ret = Undefined]
     ELSE IF c.heap[this]._nextFlush = FALSE
       THEN [schedule(c, c.heap[this].storeWrapper, this)
               EXCEPT !.heap[this]._nextFlush = TRUE]
       ELSE c

\* A push that marks a flush as pending without scheduling one.
Graph_push_unscheduled(m, this, identifier, propertyName, payload) ==
  LET a == Graph_get(m, this, identifier)
      b == Relationships_get(a, a.ret, propertyName)
      relationship == b.ret
      kind == b.heap[relationship].kind
  IN [b EXCEPT !.heap[this]._queued[kind] = @ \o <<relationship, payload>>,
               !.heap[this]._nextFlush = TRUE,
               !.ret = Undefined]

\* A push that queues every update in the to-many queue.
Graph_push_oneQueue(m, this, identifier, propertyName, payload) ==
  LET a == Graph_get(m, this, identifier)
      b == Relationships_get(a, a.ret, propertyName)
      relationship == b.ret
      c == [b EXCEPT !.heap[this]._queued["hasMany"] = @ \o <<relationship, payload>>,
                     !.ret = Undefined]
  IN IF c.heap[this]._nextFlush = FALSE
       THEN [schedule(c, c.heap[this].storeWrapper, this)
               EXCEPT !.heap[this]._nextFlush = TRUE]
       ELSE c

Graph_push(m, this, identifier, propertyName, payload) ==
  LET a == Graph_get(m, this, identifier)
      b == Relationships_get(a, a.ret, propertyName)
      relationship == b.ret
      kind == b.heap[relationship].kind
      c == [b EXCEPT !.heap[this]._queued[kind] = @ \o <<relationship, payload>>,
                     !.ret = Undefined]
  IN IF c.heap[this]._nextFlush = FALSE
       THEN [schedule(c, c.heap[this].storeWrapper, this)
               EXCEPT !.heap[this]._nextFlush = TRUE]
       ELSE c

\* A flush that hands every entry to this.push instead of to the
\* relationship's own push.
RECURSIVE RequeueEach(_, _, _, _)
RequeueEach(m, this, queue, i) ==
  IF i > Len(queue) THEN m
  ELSE RequeueEach(Graph_push(m, this, m.heap[queue[i]].identifier, m.heap[queue[i]].key,
                              queue[i + 1]),
                   this, queue, i + 2)

Graph_flush_requeueing(m, this) ==
  LET belongsTo == m.heap[this]._queued.belongsTo
      hasMany == m.heap[this]._queued.hasMany
      a == [m EXCEPT !.heap[this]._nextFlush = FALSE,
                     !.heap[this]._queued = EmptyQueued,
                     !.ret = Undefined]
  IN RequeueEach(RequeueEach(a, this, hasMany, 1), this, belongsTo, 1)

\* A flush that drains the to-one queue first.
Graph_flush_belongsToFirst(m, this) ==
  LET belongsTo == m.heap[this]._queued.belongsTo
      hasMany == m.heap[this]._queued.hasMany
      a == [m EXCEPT !.heap[this]._nextFlush = FALSE,
                     !.heap[this]._queued = [belongsTo |-> <<>>, hasMany |-> <<>>],
                     !.ret = Undefined]
  IN PushEach(PushEach(a, belongsTo, 1), hasMany, 1)

\* A flush that leaves _nextFlush set.
Graph_flush_keepingNextFlush(m, this) ==
  LET belongsTo == m.heap[this]._queued.belongsTo
      hasMany == m.heap[this]._queued.hasMany
      a == [m EXCEPT !.heap[this]._queued = [belongsTo |-> <<>>, hasMany |-> <<>>],
                     !.ret = Undefined]
  IN PushEach(PushEach(a, hasMany, 1), belongsTo, 1)

\* A flush that stops after the to-many updates and leaves the rest queued.
Graph_flush_hasManyOnly(m, this) ==
  LET hasMany == m.heap[this]._queued.hasMany
      a == [m EXCEPT !.heap[this]._nextFlush = FALSE,
                     !.heap[this]._queued.hasMany = <<>>,
                     !.ret = Undefined]
  IN PushEach(a, hasMany, 1)

\* A flush that does not replace the queue it drains.
Graph_flush_keepingQueue(m, this) ==
  LET belongsTo == m.heap[this]._queued.belongsTo
      hasMany == m.heap[this]._queued.hasMany
      a == [m EXCEPT !.heap[this]._nextFlush = FALSE, !.ret = Undefined]
  IN PushEach(PushEach(a, hasMany, 1), belongsTo, 1)

\* A flush that resets _nextFlush and replaces the queue after it has applied
\* the updates.
Graph_flush_resettingLast(m, this) ==
  LET belongsTo == m.heap[this]._queued.belongsTo
      hasMany == m.heap[this]._queued.hasMany
      a == PushEach(PushEach([m EXCEPT !.ret = Undefined], hasMany, 1), belongsTo, 1)
  IN [a EXCEPT !.heap[this]._nextFlush = FALSE,
               !.heap[this]._queued = EmptyQueued]

Graph_flush(m, this) ==
  LET belongsTo == m.heap[this]._queued.belongsTo
      hasMany == m.heap[this]._queued.hasMany
      a == [m EXCEPT !.heap[this]._nextFlush = FALSE,
                     !.heap[this]._queued = EmptyQueued,
                     !.ret = Undefined]
  IN PushEach(PushEach(a, hasMany, 1), belongsTo, 1)

\* ---------------------------------------------------------------- record-data-for.ts
relationshipsFor(m, storeWrapper, identifier) ==
  LET a == graphFor(m, storeWrapper) IN Graph_get(a, a.ret, identifier)

\* A relationshipStateFor that reads the name in the implicit dictionary.
relationshipStateFor_implicit(m, storeWrapper, identifier, propertyName) ==
  LET a == graphFor(m, storeWrapper)
      b == Graph_getImplicit(a, a.ret, identifier)
  IN [b EXCEPT !.ret = b.heap[b.ret].entries[propertyName]]

relationshipStateFor(m, storeWrapper, identifier, propertyName) ==
  LET a == relationshipsFor(m, storeWrapper, identifier)
  IN Relationships_get(a, a.ret, propertyName)

implicitRelationshipsFor(m, storeWrapper, identifier) ==
  LET a == graphFor(m, storeWrapper) IN Graph_getImplicit(a, a.ret, identifier)

\* An implicitRelationshipStateFor that registers a Relationship under a name
\* the dictionary does not hold.
implicitRelationshipStateFor_registering(m, storeWrapper, identifier, propertyName) ==
  LET a == implicitRelationshipsFor(m, storeWrapper, identifier)
      dict == a.ret
      new == Address(a.heap, "Relationship", storeWrapper, identifier, propertyName)
  IN IF a.heap[dict].entries[propertyName] = Undefined
       THEN [Alloc(a, new, NewRelationship(a.Graphs[storeWrapper], identifier, propertyName))
               EXCEPT !.heap[dict].entries[propertyName] = new]
       ELSE [a EXCEPT !.ret = a.heap[dict].entries[propertyName]]

implicitRelationshipStateFor(m, storeWrapper, identifier, propertyName) ==
  LET a == implicitRelationshipsFor(m, storeWrapper, identifier)
  IN [a EXCEPT !.ret = a.heap[a.ret].entries[propertyName]]

\* ---------------------------------------------------------------- record-data-for (with the legacy call shape)
\* The first argument of the legacy call shape: an object whose _internalModel
\* carries the identifier and the record data's own store wrapper.
Legacy(storeWrapper, identifier) ==
  [_internalModel |-> [identifier |-> identifier,
                       _recordData |-> [storeWrapper |-> storeWrapper]]]

\* upgradeForInternal(wrapper): the same wrapper, seen through its internal type.
upgradeForInternal(storeWrapper) == storeWrapper

compat_relationshipsFor(m, storeWrapper, identifier) ==
  IF identifier = Missing
    THEN LET internalModel == storeWrapper._internalModel
             a == graphFor(m, upgradeForInternal(internalModel._recordData.storeWrapper))
         IN Graph_get(a, a.ret, internalModel.identifier)
    ELSE LET a == graphFor(m, storeWrapper) IN Graph_get(a, a.ret, identifier)

\* A relationshipStateFor whose legacy call shape makes a container of its own.
compat_relationshipStateFor_ownContainer(m, storeWrapper, identifier, propertyName) ==
  IF propertyName = Missing
    THEN LET internalModel == storeWrapper._internalModel
             a == graphFor(m, upgradeForInternal(internalModel._recordData.storeWrapper))
             b == Graph_get_uncached(a, a.ret, internalModel.identifier)
         IN Relationships_get(b, b.ret, identifier)
    ELSE LET a == compat_relationshipsFor(m, storeWrapper, identifier)
         IN Relationships_get(a, a.ret, propertyName)

compat_relationshipStateFor(m, storeWrapper, identifier, propertyName) ==
  IF propertyName = Missing
    THEN LET internalModel == storeWrapper._internalModel
             a == compat_relationshipsFor(
                    m, upgradeForInternal(internalModel._recordData.storeWrapper),
                    internalModel.identifier)
         IN Relationships_get(a, a.ret, identifier)
    ELSE LET a == compat_relationshipsFor(m, storeWrapper, identifier)
         IN Relationships_get(a, a.ret, propertyName)

\* ---------------------------------------------------------------- identifier cache
\* The error mergeIdentifier signals when the id is another identifier's.
IdCollision == [tag |-> "Error", store |-> "", identifier |-> "", key |-> "id collision",
                n |-> 0]

\* The identifier cache of a store and the identifier object named `lid` in it.
IdentifierCacheOf(store) ==
  [tag |-> "IdentifierCache", store |-> store, identifier |-> "", key |-> "", n |-> 1]

IdentifierOf(store, lid) ==
  [tag |-> "Identifier", store |-> store, identifier |-> lid, key |-> "", n |-> 1]

NewIdentifierCache ==
  [lid |-> [l \in Lids |-> Undefined],
   id |-> [k \in Types \X Ids |-> Undefined]]

NewIdentifier(type, id, lid) == [type |-> type, id |-> id, lid |-> lid]

\* identifierCacheFor(store): the cache of the store, made on first use.
identifierCacheFor(m, store) ==
  IF IdentifierCacheOf(store) \in DOMAIN m.heap
    THEN [m EXCEPT !.ret = IdentifierCacheOf(store)]
    ELSE Alloc(m, IdentifierCacheOf(store), NewIdentifierCache)

\* The identifiers a cache has made.
IdentifiersOf(h, this) == {i \in DOMAIN h : i.tag = "Identifier" /\ i.store = this.store}

\* getOrCreate(type, id, clientId): the cached identifier of (type, id) when
\* id is known; the identifier a supplied clientId is mapped to when id is
\* null; otherwise a new identifier with a freshly generated local id,
\* registered under it and, if id is known, under (type, id).
getOrCreateRecordIdentifier(m, this, type, id, lid) ==
  LET cache == m.heap[this] IN
  IF id # Null /\ cache.id[<<type, id>>] # Undefined
    THEN [m EXCEPT !.ret = cache.id[<<type, id>>]]
  ELSE IF id = Null /\ lid # Null /\ lid \in Lids /\ cache.lid[lid] # Undefined
    THEN [m EXCEPT !.ret = cache.lid[lid]]
    ELSE LET generated == LidsInOrder[Cardinality(IdentifiersOf(m.heap, this)) + 1]
             new == IdentifierOf(this.store, generated)
             a == Alloc(m, new, NewIdentifier(type, id, generated))
             b == [a EXCEPT !.heap[this].lid[generated] = new]
         IN IF id = Null THEN b ELSE [b EXCEPT !.heap[this].id[<<type, id>>] = new]

\* Whether a getOrCreate with these arguments makes a new identifier.
Allocates(h, this, type, id, lid) ==
  ~ \/ id # Null /\ h[this].id[<<type, id>>] # Undefined
    \/ id = Null /\ lid # Null /\ lid \in Lids /\ h[this].lid[lid] # Undefined

\* A merge that makes a new identifier object for (type, newId).
mergeIdentifier_replacing(m, this, identifier, newId) ==
  LET type == m.heap[identifier].type
      existing == m.heap[this].id[<<type, newId>>]
  IN IF existing # Undefined /\ existing # identifier
       THEN [m EXCEPT !.ret = IdCollision]
       ELSE getOrCreateRecordIdentifier(m, this, type, newId, Null)

\* A merge that hands out the identifier (type, newId) is already mapped to.
mergeIdentifier_silent(m, this, identifier, newId) ==
  LET type == m.heap[identifier].type
      existing == m.heap[this].id[<<type, newId>>]
  IN IF existing # Undefined /\ existing # identifier
       THEN [m EXCEPT !.ret = existing]
       ELSE [m EXCEPT !.heap[identifier].id = newId,
                      !.heap[this].id[<<type, newId>>] = identifier,
                      !.ret = identifier]

\* mergeIdentifier(identifier, newId): the id field is set in place and the
\* identifier indexed under (type, newId); an error is signalled, and nothing
\* changed, if (type, newId) is mapped to another identifier.
mergeIdentifier(m, this, identifier, newId) ==
  LET type == m.heap[identifier].type
      existing == m.heap[this].id[<<type, newId>>]
  IN IF existing # Undefined /\ existing # identifier
       THEN [m EXCEPT !.ret = IdCollision]
       ELSE [m EXCEPT !.heap[identifier].id = newId,
                      !.heap[this].id[<<type, newId>>] = identifier,
                      !.ret = identifier]

\* ---------------------------------------------------------------- store.ts
\* new RecordData(identifier, storeWrapper) and
\* new RecordData(modelName, id, clientId, storeWrapper)
NewRecordData(identifier, modelName, id, clientId, storeWrapper) ==
  [identifier |-> identifier, modelName |-> modelName, id |-> id, clientId |-> clientId,
   storeWrapper |-> storeWrapper, isDestroyed |-> FALSE]

RecordDataRefs == {r \in Refs : r.tag = "RecordData"}

\* A createRecordDataFor that asks for the identifier by model name alone.
createRecordDataFor_withoutId(m, this, modelName, id, clientId, storeWrapper) ==
  LET a == identifierCacheFor(m, this)
      b == getOrCreateRecordIdentifier(a, a.ret, modelName, Null, clientId)
      identifier == b.ret
  IN Alloc(b, Address(b.heap, "RecordData", this, identifier.identifier, ""),
           NewRecordData(identifier, Null, Null, Null, storeWrapper))

createRecordDataFor(m, this, modelName, id, clientId, storeWrapper) ==
  IF IDENTIFIERS
    THEN LET a == identifierCacheFor(m, this)
             b == getOrCreateRecordIdentifier(a, a.ret, modelName, id, clientId)
             identifier == b.ret
         IN Alloc(b, Address(b.heap, "RecordData", this, identifier.identifier, ""),
                  NewRecordData(identifier, Null, Null, Null, storeWrapper))
    ELSE Alloc(m, Address(m.heap, "RecordData", this, "", ""),
               NewRecordData(Undefined, modelName, id, clientId, storeWrapper))

\* ---------------------------------------------------------------- record data
\* The RecordData objects made for an identifier, in heap h.
RecordDatasOf(h, identifier) ==
  {r \in DOMAIN h : r.tag = "RecordData" /\ h[r].identifier = identifier}

\* Whether the record of an identifier has been unloaded (and not made anew).
Unloaded(h, identifier) ==
  /\ RecordDatasOf(h, identifier) # {}
  /\ \A r \in RecordDatasOf(h, identifier) : h[r].isDestroyed

\* The Relationships of the record of `this` that the graph holds.
OwnRelationships(m, this) ==
  LET graph == m.Graphs[m.heap[this].storeWrapper]
      container == IF graph = Undefined THEN Undefined
                   ELSE m.heap[graph].identifiers[m.heap[this].identifier]
  IN IF container = Undefined THEN {}
     ELSE {m.heap[container].initializedRelationships[n] : n \in Names} \ {Undefined}

\* The identifiers a relationship names, canonically or in its overlay.
Named(h, r) == Members(h[r].canonicalMembers \o h[r].localAdded \o h[r].localRemoved)

\* An unload that does not tell the inverses.
unloadRecord_silent(m, this) ==
  LET h == m.heap
      identifier == h[this].identifier
      graph == m.Graphs[h[this].storeWrapper]
      own == OwnRelationships(m, this)
      after == [x \in DOMAIN h |->
                  IF x = this THEN [h[x] EXCEPT !.isDestroyed = TRUE]
                  ELSE IF x \in own
                    THEN [h[x] EXCEPT !.isDestroyed = TRUE, !.canonicalMembers = <<>>,
                                      !.localAdded = <<>>, !.localRemoved = <<>>]
                  ELSE IF x = graph
                    THEN [h[x] EXCEPT !.identifiers[identifier] = Undefined,
                                      !.implicitMap[identifier] = Undefined]
                  ELSE h[x]]
  IN IF h[this].isDestroyed THEN [m EXCEPT !.ret = StaleReference]
     ELSE [m EXCEPT !.heap = after, !.ret = Undefined]

\* unloadRecord() of a RecordData: the record leaves the graph of its store.
\* Each of its Relationships is cleared and destroyed, the inverse of each on
\* every identifier it named forgets the record, the container and the
\* implicit dictionary of the identifier leave the maps of the graph, and the
\* RecordData is marked destroyed.
unloadRecord(m, this) ==
  LET h == m.heap
      identifier == h[this].identifier
      graph == m.Graphs[h[this].storeWrapper]
      own == OwnRelationships(m, this)
      inverses == UNION {{InverseRef(h, r, x) :
                            x \in {y \in Named(h, r) : h[graph].identifiers[y] # Undefined}}
                          : r \in own} \ {Undefined}
      after == [x \in DOMAIN h |->
                  IF x = this THEN [h[x] EXCEPT !.isDestroyed = TRUE]
                  ELSE IF x \in own
                    THEN [h[x] EXCEPT !.isDestroyed = TRUE, !.canonicalMembers = <<>>,
                                      !.localAdded = <<>>, !.localRemoved = <<>>]
                  ELSE IF x \in inverses
                    THEN [h[x] EXCEPT !.canonicalMembers = Remove(@, identifier),
                                      !.localAdded = Remove(@, identifier),
                                      !.localRemoved = Remove(@, identifier)]
                  ELSE IF x = graph
                    THEN [h[x] EXCEPT !.identifiers[identifier] = Undefined,
                                      !.implicitMap[identifier] = Undefined]
                  ELSE h[x]]
  IN IF h[this].isDestroyed THEN [m EXCEPT !.ret = StaleReference]
     ELSE [m EXCEPT !.heap = after, !.ret = Undefined]

\* getBelongsTo(key) and getHasMany(key) of a RecordData: the state of the
\* named relationship of its record; a destroyed RecordData throws.
getBelongsTo(m, this, key) ==
  IF m.heap[this].isDestroyed THEN [m EXCEPT !.ret = StaleReference]
  ELSE relationshipStateFor(m, m.heap[this].storeWrapper, m.heap[this].identifier, key)

getHasMany(m, this, key) ==
  IF m.heap[this].isDestroyed THEN [m EXCEPT !.ret = StaleReference]
  ELSE relationshipStateFor(m, m.heap[this].storeWrapper, m.heap[this].identifier, key)

\* ---------------------------------------------------------------- state machine
NoCall == [op |-> "none", store |-> "", this |-> Undefined, identifier |-> "",
           name |-> "", payload |-> NoPayload, allocated |-> 0, id |-> "", lid |-> ""]

\* The number of objects a step allocates.
Allocated == Cardinality(DOMAIN heap') - Cardinality(DOMAIN heap)

Init ==
  /\ Graphs = [s \in Stores |-> Undefined]
  /\ heap = [a \in {} |-> Undefined]
  /\ backburner = [s \in Stores |-> <<>>]
  /\ applied = <<>>
  /\ pushed = <<>>
  /\ lastFlush = [this |-> Undefined, queued |-> 0, batch |-> <<>>]
  /\ call = NoCall
  /\ ret = Undefined

\* The memory an operation leaves becomes the next state.
Commit(m) ==
  /\ Graphs' = m.Graphs
  /\ heap' = m.heap
  /\ backburner' = m.backburner
  /\ applied' = m.applied
  /\ ret' = m.ret

GraphFor(store) ==
  /\ Commit(graphFor(Mem, store))
  /\ call' = [NoCall EXCEPT !.allocated = Allocated, !.op = "graphFor", !.store = store]
  /\ UNCHANGED <<pushed, lastFlush>>

Get(this, identifier) ==
  /\ Commit(Graph_get(Mem, this, identifier))
  /\ call' = [NoCall EXCEPT !.allocated = Allocated, !.op = "get", !.this = this, !.identifier = identifier]
  /\ UNCHANGED <<pushed, lastFlush>>

GetImplicit(this, identifier) ==
  /\ Commit(Graph_getImplicit(Mem, this, identifier))
  /\ call' = [NoCall EXCEPT !.allocated = Allocated, !.op = "getImplicit", !.this = this,
                            !.identifier = identifier]
  /\ UNCHANGED <<pushed, lastFlush>>

Push(limit, this, identifier, propertyName, payload) ==
  /\ Len(pushed) < limit
  /\ LET m == Graph_push(Mem, this, identifier, propertyName, payload)
         relationship ==
           m.heap[m.heap[this].identifiers[identifier]].initializedRelationships[propertyName]
     IN /\ Commit(m)
        /\ pushed' = Append(pushed, <<relationship, payload>>)
  /\ call' = [NoCall EXCEPT !.allocated = Allocated, !.op = "push", !.this = this, !.identifier = identifier,
                            !.name = propertyName, !.payload = payload]
  /\ UNCHANGED lastFlush

\* What a run of flush on `this` did, for the history.
FlushRecord(m, this) ==
  [this |-> this,
   queued |-> (Len(heap[this]._queued.hasMany) + Len(heap[this]._queued.belongsTo)) \div 2,
   batch |-> SubSeq(m.applied, Len(applied) + 1, Len(m.applied))]

\* A direct call of the public method flush().
Flush(this) ==
  /\ LET m == Graph_flush(Mem, this)
     IN /\ Commit(m)
        /\ lastFlush' = FlushRecord(m, this)
  /\ call' = [NoCall EXCEPT !.allocated = Allocated, !.op = "flush", !.this = this]
  /\ UNCHANGED pushed

\* The run loop of a store reaches its 'flushRelationships' queue and runs the
\* task scheduled first.
RunFlushRelationships(store) ==
  /\ backburner[store] # <<>>
  /\ LET this == Head(backburner[store])
         m == Graph_flush([Mem EXCEPT !.backburner[store] = Tail(@)], this)
     IN /\ Commit(m)
        /\ lastFlush' = FlushRecord(m, this)
        /\ call' = [NoCall EXCEPT !.allocated = Allocated, !.op = "scheduledFlush", !.this = this,
                                  !.store = store]
  /\ UNCHANGED pushed

RelationshipsFor(storeWrapper, identifier) ==
  /\ Commit(relationshipsFor(Mem, storeWrapper, identifier))
  /\ call' = [NoCall EXCEPT !.allocated = Allocated, !.op = "relationshipsFor", !.store = storeWrapper,
                            !.identifier = identifier]
  /\ UNCHANGED <<pushed, lastFlush>>

RelationshipStateFor(storeWrapper, identifier, propertyName) ==
  /\ Commit(relationshipStateFor(Mem, storeWrapper, identifier, propertyName))
  /\ call' = [NoCall EXCEPT !.allocated = Allocated, !.op = "relationshipStateFor", !.store = storeWrapper,
                            !.identifier = identifier, !.name = propertyName]
  /\ UNCHANGED <<pushed, lastFlush>>

ImplicitRelationshipsFor(storeWrapper, identifier) ==
  /\ Commit(implicitRelationshipsFor(Mem, storeWrapper, identifier))
  /\ call' = [NoCall EXCEPT !.allocated = Allocated, !.op = "implicitRelationshipsFor", !.store = storeWrapper,
                            !.identifier = identifier]
  /\ UNCHANGED <<pushed, lastFlush>>

ImplicitRelationshipStateFor(storeWrapper, identifier, propertyName) ==
  /\ Commit(implicitRelationshipStateFor(Mem, storeWrapper, identifier, propertyName))
  /\ call' = [NoCall EXCEPT !.allocated = Allocated, !.op = "implicitRelationshipStateFor",
                            !.store = storeWrapper, !.identifier = identifier,
                            !.name = propertyName]
  /\ UNCHANGED <<pushed, lastFlush>>

CompatRelationshipsFor(storeWrapper, identifier) ==
  /\ Commit(compat_relationshipsFor(Mem, storeWrapper, identifier))
  /\ call' = [NoCall EXCEPT !.allocated = Allocated, !.op = "compat/relationshipsFor", !.store = storeWrapper,
                            !.identifier = identifier]
  /\ UNCHANGED <<pushed, lastFlush>>

LegacyRelationshipsFor(storeWrapper, identifier) ==
  /\ Commit(compat_relationshipsFor(Mem, Legacy(storeWrapper, identifier), Missing))
  /\ call' = [NoCall EXCEPT !.allocated = Allocated, !.op = "legacy/relationshipsFor", !.store = storeWrapper,
                            !.identifier = identifier]
  /\ UNCHANGED <<pushed, lastFlush>>

CompatRelationshipStateFor(storeWrapper, identifier, propertyName) ==
  /\ Commit(compat_relationshipStateFor(Mem, storeWrapper, identifier, propertyName))
  /\ call' = [NoCall EXCEPT !.allocated = Allocated, !.op = "compat/relationshipStateFor",
                            !.store = storeWrapper, !.identifier = identifier,
                            !.name = propertyName]
  /\ UNCHANGED <<pushed, lastFlush>>

LegacyRelationshipStateFor(storeWrapper, identifier, propertyName) ==
  /\ Commit(compat_relationshipStateFor(Mem, Legacy(storeWrapper, identifier),
                                        propertyName, Missing))
  /\ call' = [NoCall EXCEPT !.allocated = Allocated, !.op = "legacy/relationshipStateFor",
                            !.store = storeWrapper, !.identifier = identifier,
                            !.name = propertyName]
  /\ UNCHANGED <<pushed, lastFlush>>

\* Graph.push of a payload document the caller has just built: document k is
\* the payload of the k-th push.
PushData(limit, this, identifier, propertyName, hasData, data) ==
  /\ Len(pushed) < limit
  /\ LET payload == Len(pushed) + 1
         a == Alloc(Mem, Document(payload), NewDocument(hasData, data))
         m == Graph_push(a, this, identifier, propertyName, payload)
         relationship ==
           m.heap[m.heap[this].identifiers[identifier]].initializedRelationships[propertyName]
     IN /\ Commit(m)
        /\ pushed' = Append(pushed, <<relationship, payload>>)
        /\ call' = [NoCall EXCEPT !.allocated = Allocated, !.op = "push", !.this = this,
                                  !.identifier = identifier, !.name = propertyName,
                                  !.payload = payload]
  /\ UNCHANGED lastFlush

\* Graph.push of a payload document the caller has just built, whatever it holds.
PushDocument(limit, this, identifier, propertyName, document) ==
  /\ Len(pushed) < limit
  /\ LET payload == Len(pushed) + 1
         a == Alloc(Mem, Document(payload), document)
         m == Graph_push(a, this, identifier, propertyName, payload)
         relationship ==
           m.heap[m.heap[this].identifiers[identifier]].initializedRelationships[propertyName]
     IN /\ Commit(m)
        /\ pushed' = Append(pushed, <<relationship, payload>>)
        /\ call' = [NoCall EXCEPT !.allocated = Allocated, !.op = "push", !.this = this,
                                  !.identifier = identifier, !.name = propertyName,
                                  !.payload = payload]
  /\ UNCHANGED lastFlush

LocalAdd(this, identifier) ==
  /\ heap[this].kind = "hasMany"
  /\ Commit(localAdd(Mem, this, identifier))
  /\ call' = [NoCall EXCEPT !.allocated = Allocated, !.op = "localAdd", !.this = this,
                            !.identifier = identifier]
  /\ UNCHANGED <<pushed, lastFlush>>

LocalRemove(this, identifier) ==
  /\ heap[this].kind = "hasMany"
  /\ Commit(localRemove(Mem, this, identifier))
  /\ call' = [NoCall EXCEPT !.allocated = Allocated, !.op = "localRemove", !.this = this,
                            !.identifier = identifier]
  /\ UNCHANGED <<pushed, lastFlush>>

LocalSet(this, identifier) ==
  /\ heap[this].kind = "belongsTo"
  /\ Commit(localSet(Mem, this, identifier))
  /\ call' = [NoCall EXCEPT !.allocated = Allocated, !.op = "localSet", !.this = this,
                            !.identifier = identifier]
  /\ UNCHANGED <<pushed, lastFlush>>

Rollback(this) ==
  /\ Commit(rollback(Mem, this))
  /\ call' = [NoCall EXCEPT !.allocated = Allocated, !.op = "rollback", !.this = this]
  /\ UNCHANGED <<pushed, lastFlush>>

\* Reading the current state of a relationship.
Read(this) ==
  /\ Commit(read(Mem, this))
  /\ call' = [NoCall EXCEPT !.allocated = Allocated, !.op = "read", !.this = this]
  /\ UNCHANGED <<pushed, lastFlush>>

\* new RecordData(identifier, storeWrapper), for an identifier that has had no
\* record yet.
NewRecordDataFor(limit, store, identifier) ==
  /\ Cardinality(RecordDataRefs) < limit
  /\ RecordDatasOf(heap, identifier) = {}
  /\ Commit(Alloc(Mem, Address(heap, "RecordData", store, identifier, ""),
                  NewRecordData(identifier, Null, Null, Null, store)))
  /\ call' = [NoCall EXCEPT !.allocated = Allocated, !.op = "newRecordData", !.store = store,
                            !.identifier = identifier]
  /\ UNCHANGED <<pushed, lastFlush>>

UnloadRecord(this) ==
  /\ Commit(unloadRecord(Mem, this))
  /\ call' = [NoCall EXCEPT !.allocated = Allocated, !.op = "unloadRecord", !.this = this,
                            !.store = heap[this].storeWrapper,
                            !.identifier = heap[this].identifier]
  /\ UNCHANGED <<pushed, lastFlush>>

GetHasMany(this, key) ==
  /\ KindOf(key) = "hasMany"
  /\ Commit(getHasMany(Mem, this, key))
  /\ call' = [NoCall EXCEPT !.allocated = Allocated, !.op = "getHasMany", !.this = this,
                            !.identifier = heap[this].identifier, !.name = key]
  /\ UNCHANGED <<pushed, lastFlush>>

GetBelongsTo(this, key) ==
  /\ KindOf(key) = "belongsTo"
  /\ Commit(getBelongsTo(Mem, this, key))
  /\ call' = [NoCall EXCEPT !.allocated = Allocated, !.op = "getBelongsTo", !.this = this,
                            !.identifier = heap[this].identifier, !.name = key]
  /\ UNCHANGED <<pushed, lastFlush>>

\* A new identifier can be made as long as a local id is left to generate.
CanAllocate(store, type, id, lid) ==
  \/ Cardinality(IdentifiersOf(heap, IdentifierCacheOf(store))) < Len(LidsInOrder)
  \/ /\ IdentifierCacheOf(store) \in Refs
     /\ ~Allocates(heap, IdentifierCacheOf(store), type, id, lid)

\* identifierCacheFor(store).getOrCreateRecordIdentifier({ type, id, lid })
GetOrCreateRecordIdentifier(store, type, id, lid) ==
  /\ CanAllocate(store, type, id, lid)
  /\ LET a == identifierCacheFor(Mem, store)
     IN Commit(getOrCreateRecordIdentifier(a, a.ret, type, id, lid))
  /\ call' = [NoCall EXCEPT !.allocated = Allocated, !.op = "getOrCreateRecordIdentifier",
                            !.store = store, !.name = type, !.id = id, !.lid = lid]
  /\ UNCHANGED <<pushed, lastFlush>>

\* identifierCacheFor(store).mergeIdentifier(identifier, newId), for an
\* identifier that has no id yet.
MergeIdentifier(store, identifier, newId) ==
  /\ identifier \in IdentifiersOf(heap, IdentifierCacheOf(store))
  /\ heap[identifier].id = Null
  /\ Commit(mergeIdentifier(Mem, IdentifierCacheOf(store), identifier, newId))
  /\ call' = [NoCall EXCEPT !.allocated = Allocated, !.op = "mergeIdentifier",
                            !.store = store, !.this = identifier,
                            !.name = heap[identifier].type, !.id = newId]
  /\ UNCHANGED <<pushed, lastFlush>>

\* store.createRecordDataFor(modelName, id, clientId, storeWrapper), with the
\* store's own wrapper.
CreateRecordDataFor(store, modelName, id, clientId) ==
  /\ Cardinality(RecordDataRefs) < MaxRecordDatas
  /\ CanAllocate(store, modelName, id, clientId)
  /\ Commit(createRecordDataFor(Mem, store, modelName, id, clientId, store))
  /\ call' = [NoCall EXCEPT !.allocated = Allocated, !.op = "createRecordDataFor",
                            !.store = store, !.name = modelName, !.id = id, !.lid = clientId]
  /\ UNCHANGED <<pushed, lastFlush>>

\* The operations of the graph: pushes are made for the identifiers PI and the
\* names PN, at most `limit` of them; containers are looked up for the
\* identifiers LI.
GraphNext(S, PI, PN, limit, LI) ==
  \/ \E store \in S : GraphFor(store)
  \/ \E this \in GraphRefs, identifier \in LI : Get(this, identifier)
  \/ \E this \in GraphRefs, identifier \in LI : GetImplicit(this, identifier)
  \/ \E this \in GraphRefs, identifier \in PI, propertyName \in PN :
        Push(limit, this, identifier, propertyName, Len(pushed) + 1)
  \/ \E this \in GraphRefs : Flush(this)
  \/ \E store \in S : RunFlushRelationships(store)

\* The lookup helpers, called for the stores S, the identifiers LI and the
\* names LN, in both call shapes.
HelperNext(S, LI, LN) ==
  \/ \E store \in S, identifier \in LI : RelationshipsFor(store, identifier)
  \/ \E store \in S, identifier \in LI, propertyName \in LN :
        RelationshipStateFor(store, identifier, propertyName)
  \/ \E store \in S, identifier \in LI : ImplicitRelationshipsFor(store, identifier)
  \/ \E store \in S, identifier \in LI, propertyName \in LN :
        ImplicitRelationshipStateFor(store, identifier, propertyName)
  \/ \E store \in S, identifier \in LI : CompatRelationshipsFor(store, identifier)
  \/ \E store \in S, identifier \in LI : LegacyRelationshipsFor(store, identifier)
  \/ \E store \in S, identifier \in LI, propertyName \in LN :
        CompatRelationshipStateFor(store, identifier, propertyName)
  \/ \E store \in S, identifier \in LI, propertyName \in LN :
        LegacyRelationshipStateFor(store, identifier, propertyName)

\* The graph of one store: pushes for every relationship of two records.
Next == GraphNext({"s1"}, Identifiers, Names, MaxPushes, {"post1"})

Spec == Init /\ [][Next]_vars

\* The graph of one store with a run loop that runs every task scheduled in
\* it: pushes for the two relationships of one record.
NextFair == GraphNext({"s1"}, {"post1"}, Names, MaxPushes, {"post1"})

FairSpec == Init /\ [][NextFair]_vars /\ WF_vars(RunFlushRelationships("s1"))

\* The lookups in one store: every relationship of two records is looked up,
\* and one of them is pushed to.
NextLookup ==
  \/ GraphNext({"s1"}, {"post1"}, {"comments"}, MaxLookupPushes, Identifiers)
  \/ HelperNext({"s1"}, Identifiers, Names)

SpecLookup == Init /\ [][NextLookup]_vars

\* Two stores: one relationship of one record is looked up and pushed to in each.
NextStores ==
  \/ GraphNext(Stores, {"post1"}, {"comments"}, MaxLookupPushes, {"post1"})
  \/ HelperNext(Stores, {"post1"}, {"comments"})

SpecStores == Init /\ [][NextStores]_vars

\* Responses that arrive in any order: the requests of a record's
\* relationships are numbered in the order they were made, the payload of a
\* response carries the number of its request, and each response is pushed
\* when it arrives, however late.
Requests == 1..MaxPushes

Arrived == {pushed[k][2] : k \in DOMAIN pushed}

NextLate ==
  \/ GraphFor("s1")
  \/ \E this \in GraphRefs, propertyName \in Names, payload \in Requests \ Arrived :
        Push(MaxPushes, this, "post1", propertyName, payload)
  \/ \E this \in GraphRefs : Flush(this)
  \/ RunFlushRelationships("s1")

SpecLate == Init /\ [][NextLate]_vars

\* The local ids of the identifiers the cache of a store has made.
Made(store) == {l \in Lids : IdentifierOf(store, l) \in Refs}

\* The identifier cache of one store and the records made from it: identifiers
\* are made with and without an id, for new records and for records already
\* known, and merged with an id.
NextIdentity ==
  \/ \E type \in Types, id \in Ids \cup {Null}, lid \in Lids \cup {Null} :
        GetOrCreateRecordIdentifier("s1", type, id, lid)
  \/ \E type \in Types, id \in Ids \cup {Null}, lid \in Lids \cup {Null} :
        CreateRecordDataFor("s1", type, id, lid)
  \/ \E identifier \in Refs, newId \in Ids : MergeIdentifier("s1", identifier, newId)

SpecIdentity == Init /\ [][NextIdentity]_vars

\* Identifiers of new records (no id yet) in the graph of their store: they
\* are looked up in the graph, made members of the comments of the first of
\* them, and merged with the id the server gives them.
NextMerge ==
  \/ GetOrCreateRecordIdentifier("s1", "comment", Null, Null)
  \/ \E identifier \in Refs, newId \in Ids : MergeIdentifier("s1", identifier, newId)
  \/ GraphFor("s1")
  \/ \E this \in GraphRefs, l \in Made("s1") : Get(this, l)
  \/ \E this \in GraphRefs, l \in Made("s1") : GetImplicit(this, l)
  \/ \E this \in GraphRefs, member \in Made("s1") \ {LidsInOrder[1]} :
        PushData(MaxLocalPushes, this, LidsInOrder[1], "comments", TRUE, <<member>>)
  \/ RunFlushRelationships("s1")

SpecMerge == Init /\ [][NextMerge]_vars

\* The relationships the schema declares: the comments of a post, the post of
\* each comment.
Declared == {<<"post1", "comments">>} \cup {<<c, "post">> : c \in Comments}

\* The member lists a payload document for a relationship can carry.
DataFor(propertyName) ==
  IF KindOf(propertyName) = "hasMany"
    THEN {<<>>, <<"comment10">>, <<"comment10", "comment11">>, <<"comment11", "comment10">>}
    ELSE {<<>>, <<"post1">>}

\* Canonical updates in one store: at most `limit` payload documents, with a
\* member list over the post and the comments C or with links only, are pushed
\* for the relationships P, and flushed by a direct call or by the run loop.
CanonicalNext(limit, P, C) ==
  \/ GraphFor("s1")
  \/ \E this \in GraphRefs, d \in P :
        \E data \in {x \in DataFor(d[2]) : Members(x) \subseteq C \cup {"post1"}} :
          PushData(limit, this, d[1], d[2], TRUE, data)
  \/ \E this \in GraphRefs, d \in P : PushData(limit, this, d[1], d[2], FALSE, <<>>)
  \/ \E this \in GraphRefs : Flush(this)
  \/ RunFlushRelationships("s1")

\* Local edits of the relationships of the post and of the comments C, looked
\* up first.
LocalNext(C) ==
  \/ \E d \in Declared : d[1] \in C \cup {"post1"} /\ RelationshipStateFor("s1", d[1], d[2])
  \/ \E this \in RelationshipRefs, c \in C : LocalAdd(this, c)
  \/ \E this \in RelationshipRefs, c \in C : LocalRemove(this, c)
  \/ \E this \in RelationshipRefs, p \in {"post1", Null} : LocalSet(this, p)
  \/ \E this \in RelationshipRefs : Rollback(this)

\* One post and its comments: canonical member lists are pushed for both
\* sides and flushed.
NextCanonical ==
  CanonicalNext(MaxDataPushes, {<<"post1", "comments">>, <<"comment10", "post">>}, Comments)

SpecCanonical == Init /\ [][NextCanonical]_vars

\* One post and its comments: the comments of the post are pushed and
\* flushed, and both sides are edited locally and rolled back.
NextLocal ==
  \/ CanonicalNext(MaxLocalPushes, {<<"post1", "comments">>}, Comments)
  \/ LocalNext(Comments)

SpecLocal == Init /\ [][NextLocal]_vars

\* Every operation on one post and one comment: pushes, flushes, lookups of
\* containers and relationships, local edits and rollbacks.
NextOperations ==
  \/ CanonicalNext(MaxLocalPushes, {<<"post1", "comments">>}, {"comment10"})
  \/ LocalNext({"comment10"})
  \/ \E this \in GraphRefs : Get(this, "post1")
  \/ \E this \in GraphRefs : GetImplicit(this, "post1")

SpecOperations == Init /\ [][NextOperations]_vars

\* Pushes made while a flush is running: the update of a payload notifies
\* code that pushes a follow-up payload for one of the relationships of the
\* record, from inside the update.
NextReentrant ==
  \/ GraphFor("s1")
  \/ \E this \in GraphRefs, propertyName \in Names :
        PushDocument(MaxOuterPushes, this, "post1", propertyName, NewDocument(FALSE, <<>>))
  \/ \E this \in GraphRefs, propertyName \in Names, name \in Names :
        PushDocument(MaxOuterPushes, this, "post1", propertyName,
                     [NewDocument(FALSE, <<>>) EXCEPT !.then = <<"post1", name>>])
  \/ \E this \in GraphRefs : Flush(this)
  \/ RunFlushRelationships("s1")

SpecReentrant == Init /\ [][NextReentrant]_vars

\* Updates that throw: some of the payloads pushed for the relationships of a
\* record are malformed, and the relationship refuses them when a flush hands
\* them over.
NextThrowing ==
  \/ GraphFor("s1")
  \/ \E this \in GraphRefs, propertyName \in Names :
        PushDocument(MaxThrowingPushes, this, "post1", propertyName, NewDocument(FALSE, <<>>))
  \/ \E this \in GraphRefs, propertyName \in Names :
        PushDocument(MaxThrowingPushes, this, "post1", propertyName,
                     [NewDocument(FALSE, <<>>) EXCEPT !.malformed = TRUE])
  \/ \E this \in GraphRefs : Flush(this)
  \/ RunFlushRelationships("s1")

SpecThrowing == Init /\ [][NextThrowing]_vars

\* Records that are unloaded: a post and a comment get their record data, the
\* comments of the post are pushed and flushed by direct calls, either record
\* is unloaded, and its relationships are looked up, read and
\* edited before and after.
NextUnload ==
  \/ GraphFor("s1")
  \/ \E this \in GraphRefs :
        PushData(MaxDataPushes, this, "post1", "comments", TRUE, <<"comment10">>)
  \/ \E this \in GraphRefs : Flush(this)
  \/ \E identifier \in Identifiers : NewRecordDataFor(MaxRecords, "s1", identifier)
  \/ \E this \in RecordDataRefs : UnloadRecord(this)
  \/ \E this \in RecordDataRefs : heap[this].identifier = "post1" /\ GetHasMany(this, "comments")
  \/ \E this \in RecordDataRefs :
        heap[this].identifier = "comment10" /\ GetBelongsTo(this, "post")
  \/ \E d \in {<<"post1", "comments">>, <<"comment10", "post">>} :
        RelationshipStateFor("s1", d[1], d[2])
  \/ \E this \in RelationshipRefs : Read(this)
  \/ \E this \in RelationshipRefs : LocalAdd(this, "comment10")
  \/ \E this \in RelationshipRefs : LocalSet(this, "post1")

SpecUnload == Init /\ [][NextUnload]_vars

\* ---------------------------------------------------------------- properties
\* The (relationship, payload) entries of a queue.
Pairs(queue) == [k \in 1..(Len(queue) \div 2) |-> <<queue[2 * k - 1], queue[2 * k]>>]

\* The entries of a history or queue that are for `relationship`.
Of(relationship, entries) == SelectSeq(entries, LAMBDA e : e[1] = relationship)

\* The entries of a history or queue that are for relationships of `kind` in graph g.
OfKind(g, kind, entries) ==
  SelectSeq(entries, LAMBDA e : heap[e[1]].graph = g /\ heap[e[1]].kind = kind)

\* The queue a relationship's updates wait in.
QueueOf(relationship) == heap[heap[relationship].graph]._queued[heap[relationship].kind]

Range(f) == {f[x] : x \in DOMAIN f}

\* A step that is a call of Graph.push on graph g.
PushStep(g) == pushed' # pushed /\ call'.this = g

\* A step that runs Graph.flush on graph g, called directly or by the run loop.
FlushStep(g) == call'.op \in {"flush", "scheduledFlush"} /\ call'.this = g

\* C1: every pushed (relationship, payload) pair stays its own queue entry
\* until a flush, and is applied exactly once: for every relationship, what it
\* has received so far followed by what is queued for it is exactly what was
\* pushed for it, in push order, whatever was pushed for other relationships
\* in between.
PushesRetainedInOrder ==
  /\ \A g \in GraphRefs : \A kind \in {"hasMany", "belongsTo"} :
       /\ Len(heap[g]._queued[kind]) % 2 = 0
       /\ \A e \in Range(Pairs(heap[g]._queued[kind])) : e[1] \in RelationshipRefs
  /\ \A r \in RelationshipRefs : Of(r, applied) \o Of(r, Pairs(QueueOf(r))) = Of(r, pushed)
  /\ Len(applied) <= Len(pushed)

\* Three pushes for one relationship were batched and applied by one flush.
ThreePushesOneFlush ==
  \E r \in RelationshipRefs :
    /\ Len(Of(r, pushed)) = 3
    /\ lastFlush.queued = 3
    /\ applied = pushed
    /\ heap[r].canonicalState = pushed[3][2]

\* C2: a push hands nothing to a Relationship: the step leaves every canonical
\* state as it was, and a queued payload has not been received by its
\* relationship as long as it is queued.
PushIsDeferred ==
  [][/\ \A g \in GraphRefs : PushStep(g) =>
          /\ applied' = applied
          /\ \A r \in RelationshipRefs' :
               heap'[r].canonicalState =
                 IF r \in RelationshipRefs THEN heap[r].canonicalState ELSE NoPayload
          /\ pushed'[Len(pushed')] \in Range(Pairs(heap'[g]._queued.hasMany))
                                       \cup Range(Pairs(heap'[g]._queued.belongsTo))
     /\ \A r \in RelationshipRefs' : \A e \in Range(Of(r, Pairs(QueueOf(r)')))  :
          e \notin Range(applied') /\ heap'[r].canonicalState # e[2]
    ]_vars

\* A push has just been made to a relationship that holds an earlier payload.
PushedNotYetApplied ==
  /\ call.op = "push"
  /\ \E r \in RelationshipRefs :
       /\ pushed[Len(pushed)][1] = r
       /\ heap[r].canonicalState \notin {NoPayload, pushed[Len(pushed)][2]}
       /\ pushed[Len(pushed)] \in Range(Pairs(QueueOf(r)))

\* C3: one flush applies all its to-many updates before any of its to-one
\* updates, and the updates of one kind in the order they were pushed.
HasManyBeforeBelongsTo ==
  /\ \A i, j \in DOMAIN lastFlush.batch :
       (heap[lastFlush.batch[i][1]].kind = "belongsTo"
          /\ heap[lastFlush.batch[j][1]].kind = "hasMany") => j < i
  /\ \A g \in GraphRefs : \A kind \in {"hasMany", "belongsTo"} :
       OfKind(g, kind, applied) \o Pairs(heap[g]._queued[kind]) = OfKind(g, kind, pushed)

\* A to-one update pushed first was applied after the to-many update pushed
\* second, and after it a second to-one update of another relationship.
BelongsToPushedFirstAppliedLast ==
  /\ Len(pushed) = 3
  /\ heap[pushed[1][1]].kind = "belongsTo"
  /\ heap[pushed[2][1]].kind = "hasMany"
  /\ heap[pushed[3][1]].kind = "belongsTo"
  /\ pushed[3][1] # pushed[1][1]
  /\ lastFlush.batch = <<pushed[2], pushed[1], pushed[3]>>

\* C4: the first push of a burst (made when _nextFlush is false) schedules one
\* deferred flush and sets _nextFlush; a push made while _nextFlush is set
\* schedules nothing; the scheduled flush applies the whole batch.
OneFlushPerBurst ==
  [][\A g \in GraphRefs :
       /\ PushStep(g) =>
            /\ heap'[g]._nextFlush
            /\ backburner' =
                 IF heap[g]._nextFlush THEN backburner
                 ELSE [backburner EXCEPT ![heap[g].storeWrapper] = Append(@, g)]
       /\ (FlushStep(g) /\ call'.op = "scheduledFlush") =>
            /\ heap'[g]._queued = EmptyQueued
            /\ applied' = applied \o Pairs(heap[g]._queued.hasMany)
                                  \o Pairs(heap[g]._queued.belongsTo)
    ]_vars

\* Three pushes were made before any flush ran, and one flush is scheduled.
BurstScheduledOnce ==
  /\ Len(pushed) = 3
  /\ lastFlush.this = Undefined
  /\ Len(backburner["s1"]) = 1
  /\ \A g \in GraphRefs : heap[g]._nextFlush

\* C5: if the run loop runs every scheduled 'flushRelationships' task, every
\* update accepted by push is eventually applied, and a non-empty queue is
\* eventually empty.
EveryPushEventuallyApplied ==
  (\E g \in GraphRefs : heap[g]._queued # EmptyQueued)
    ~> /\ \A g \in GraphRefs : heap[g]._queued = EmptyQueued
       /\ \A k \in DOMAIN pushed : pushed[k] \in Range(applied)

\* The run loop ran a flush that applied a batch pushed in two bursts.
ScheduledFlushAppliedAll ==
  /\ call.op = "scheduledFlush"
  /\ Len(pushed) = 3
  /\ lastFlush.queued = 2
  /\ Len(applied) = 3

CanonicalStates(m) ==
  [r \in {x \in DOMAIN m.heap : x.tag = "Relationship"} |-> m.heap[r].canonicalState]

\* C7: a flush of an empty queue applies no update and leaves the queue empty
\* and every relationship as it was; a second flush right after a first one
\* changes nothing.
EmptyFlushIsNoOp ==
  /\ [](\A g \in GraphRefs :
          LET once == Graph_flush(Mem, g) IN
          /\ Graph_flush(once, g) = once
          /\ heap[g]._queued = EmptyQueued =>
               /\ once.applied = applied
               /\ once.heap[g]._queued = EmptyQueued
               /\ CanonicalStates(once) = CanonicalStates(Mem))
  /\ [][\A g \in GraphRefs :
          (FlushStep(g) /\ heap[g]._queued = EmptyQueued) =>
            /\ applied' = applied
            /\ heap'[g]._queued = EmptyQueued
            /\ lastFlush'.batch = <<>>
            /\ \A r \in RelationshipRefs : heap'[r] = heap[r]
       ]_vars

\* A flush ran on the queue an earlier flush had emptied.
FlushedEmptyQueue ==
  /\ call.op \in {"flush", "scheduledFlush"}
  /\ lastFlush.queued = 0
  /\ applied # <<>>
  /\ applied = pushed

\* The operations that return the Relationships container of an identifier.
ContainerLookups ==
  {"relationshipsFor", "compat/relationshipsFor", "legacy/relationshipsFor"}

\* The operations that return a Relationship.
RelationshipLookups ==
  {"relationshipStateFor", "compat/relationshipStateFor", "legacy/relationshipStateFor"}

\* C8: Graph.get creates the container of an identifier on the first lookup
\* and returns that same container ever after; no container serves two
\* identifiers and no identifier has had two containers.
ContainerCachedPerIdentifier ==
  /\ []( /\ \A g \in GraphRefs : \A i \in Identifiers :
              LET c == heap[g].identifiers[i] IN
              c # Undefined =>
                /\ c \in RelationshipsRefs
                /\ heap[c].identifier = i
                /\ heap[c].graph = g
                /\ \A j \in Identifiers \ {i} : heap[g].identifiers[j] # c
         /\ \A c \in RelationshipsRefs :
              heap[heap[c].graph].identifiers[heap[c].identifier] = c)
  /\ [][ /\ \A g \in GraphRefs : \A i \in Identifiers :
              heap[g].identifiers[i] # Undefined =>
                heap'[g].identifiers[i] = heap[g].identifiers[i]
         /\ call'.op = "get" =>
              /\ ret' # Undefined
              /\ ret' = heap'[call'.this].identifiers[call'.identifier]
              /\ call'.allocated = 0 <=>
                   heap[call'.this].identifiers[call'.identifier] # Undefined
         /\ call'.op \in ContainerLookups =>
              /\ ret' # Undefined
              /\ ret' = heap'[Graphs'[call'.store]].identifiers[call'.identifier]
       ]_vars

\* A get returned a container made earlier (it holds a relationship by now),
\* in a graph that holds a container for each of the two identifiers.
CachedContainerReturned ==
  /\ call.op = "get"
  /\ call.allocated = 0
  /\ ret = heap[call.this].identifiers[call.identifier]
  /\ \E n \in Names : heap[ret].initializedRelationships[n] # Undefined
  /\ \A i \in Identifiers : heap[call.this].identifiers[i] # Undefined

\* C9: Graph.getImplicit creates an empty dictionary for an identifier on the
\* first lookup and returns that same dictionary ever after; the dictionaries
\* and the containers are kept apart: neither lookup returns, creates or
\* replaces an entry of the other map.
ImplicitMapCachedApart ==
  /\ [](\A g \in GraphRefs : \A i \in Identifiers :
          LET d == heap[g].implicitMap[i] IN
          /\ heap[g].identifiers[i].tag \in {"undefined", "Relationships"}
          /\ d # Undefined =>
               /\ d \in Refs
               /\ d.tag = "RelationshipDict"
               /\ \A j \in Identifiers : heap[g].identifiers[j] # d
               /\ \A j \in Identifiers \ {i} : heap[g].implicitMap[j] # d)
  /\ [][ /\ \A g \in GraphRefs : \A i \in Identifiers :
              IF heap[g].implicitMap[i] # Undefined
                THEN heap'[g].implicitMap[i] = heap[g].implicitMap[i]
                ELSE (heap'[g].implicitMap[i] # Undefined =>
                        \A n \in Names :
                           heap'[heap'[g].implicitMap[i]].entries[n] = Undefined)
         /\ call'.op = "getImplicit" =>
              /\ ret' # Undefined
              /\ ret' = heap'[call'.this].implicitMap[call'.identifier]
              /\ call'.allocated = 0 <=>
                   heap[call'.this].implicitMap[call'.identifier] # Undefined
              /\ heap'[call'.this].identifiers = heap[call'.this].identifiers
         /\ call'.op = "implicitRelationshipsFor" =>
              /\ ret' # Undefined
              /\ ret' = heap'[Graphs'[call'.store]].implicitMap[call'.identifier]
         /\ (call'.op = "get" /\ call'.this \in GraphRefs) =>
              heap'[call'.this].implicitMap = heap[call'.this].implicitMap
       ]_vars

\* A getImplicit returned the dictionary made earlier for an identifier that
\* has its container too.
CachedImplicitMapReturned ==
  /\ call.op = "getImplicit"
  /\ call.allocated = 0
  /\ ret = heap[call.this].implicitMap[call.identifier]
  /\ heap[call.this].identifiers[call.identifier] \in RelationshipsRefs
  /\ ret # heap[call.this].identifiers[call.identifier]

\* The operations that are called with a store.
StoreLookups ==
  {"graphFor", "implicitRelationshipsFor", "implicitRelationshipStateFor"}
    \cup ContainerLookups \cup RelationshipLookups

\* C10: each store has one Graph and no two stores share one: every lookup
\* made for a store, in either call shape, goes to the Graph registered for
\* that store, and the container, dictionary or Relationship it returns
\* belongs to that Graph and to no other.
OneGraphPerStore ==
  /\ []( /\ \A s \in Stores :
              Graphs[s] # Undefined =>
                /\ Graphs[s] \in GraphRefs
                /\ heap[Graphs[s]].storeWrapper = s
                /\ \A t \in Stores \ {s} : Graphs[t] # Graphs[s]
         /\ \A g \in GraphRefs : Graphs[heap[g].storeWrapper] = g
         /\ \A g \in GraphRefs : \A i \in Identifiers :
              LET c == heap[g].identifiers[i] IN
              c # Undefined =>
                /\ heap[c].graph = g
                /\ \A h \in GraphRefs \ {g} : \A j \in Identifiers :
                     /\ heap[h].identifiers[j] # c
                     /\ heap[g].implicitMap[i] # Undefined =>
                          heap[h].implicitMap[j] # heap[g].implicitMap[i]
                /\ \A n \in Names :
                     LET r == heap[c].initializedRelationships[n] IN
                     r # Undefined =>
                       /\ heap[r].graph = g
                       /\ \A h \in GraphRefs \ {g} : \A j \in Identifiers :
                            heap[h].identifiers[j] # Undefined =>
                              \A k \in Names :
                                heap[heap[h].identifiers[j]].initializedRelationships[k] # r)
  /\ [][ /\ \A s \in Stores : Graphs[s] # Undefined => Graphs'[s] = Graphs[s]
         /\ call'.op \in StoreLookups =>
              LET g == Graphs'[call'.store] IN
              /\ g # Undefined
              /\ heap'[g].storeWrapper = call'.store
              /\ call'.op = "graphFor" => ret' = g
              /\ call'.op \in ContainerLookups =>
                   /\ ret' = heap'[g].identifiers[call'.identifier]
                   /\ heap'[ret'].graph = g
              /\ call'.op \in RelationshipLookups =>
                   /\ ret' \in RelationshipRefs'
                   /\ heap'[ret'].graph = g
                   /\ ret' = heap'[heap'[g].identifiers[call'.identifier]]
                                .initializedRelationships[call'.name]
              /\ call'.op = "implicitRelationshipsFor" =>
                   ret' = heap'[g].implicitMap[call'.identifier]
       ]_vars

\* A legacy-shape lookup in the second store returned that store's own
\* Relationship while the first store holds a Relationship of the same
\* identifier and name.
LegacyLookupInSecondStore ==
  /\ call.op = "legacy/relationshipStateFor"
  /\ call.store = "s2"
  /\ Graphs["s1"] # Undefined
  /\ Graphs["s2"] # Undefined
  /\ heap[ret].graph = Graphs["s2"]
  /\ LET c == heap[Graphs["s1"]].identifiers[call.identifier] IN
     /\ c # Undefined
     /\ heap[c].initializedRelationships[call.name] \notin {Undefined, ret}

\* The Relationship registered for (identifier, propertyName) in the graph of
\* `store` in heap h, Undefined when none is.
Registered(G, h, store, identifier, propertyName) ==
  IF G[store] = Undefined THEN Undefined
  ELSE LET c == h[G[store]].identifiers[identifier] IN
       IF c = Undefined THEN Undefined
       ELSE h[c].initializedRelationships[propertyName]

\* C11: there is one Relationship per (identifier, name): every Relationship
\* object is the one its container holds under its name, it is made by the
\* first lookup of the name (a lookup or a push), and from then on every
\* relationshipStateFor for the pair returns that same object, whatever
\* pushes, flushes and lookups came in between.
OneRelationshipPerName ==
  /\ [](\A r \in RelationshipRefs :
          LET c == heap[heap[r].graph].identifiers[heap[r].identifier] IN
          /\ c # Undefined
          /\ heap[c].initializedRelationships[heap[r].key] = r)
  /\ [][ /\ \A c \in RelationshipsRefs : \A n \in Names :
              heap[c].initializedRelationships[n] # Undefined =>
                heap'[c].initializedRelationships[n] = heap[c].initializedRelationships[n]
         /\ call'.op = "relationshipStateFor" =>
              LET before == Registered(Graphs, heap, call'.store, call'.identifier, call'.name)
              IN /\ ret' \in RelationshipRefs'
                 /\ ret' = Registered(Graphs', heap', call'.store, call'.identifier, call'.name)
                 /\ heap'[ret'].identifier = call'.identifier
                 /\ heap'[ret'].key = call'.name
                 /\ IF before = Undefined
                      THEN ret' \notin RelationshipRefs
                      ELSE ret' = before /\ RelationshipRefs' = RelationshipRefs
         /\ \A g \in GraphRefs : PushStep(g) =>
              pushed'[Len(pushed')][1] =
                heap'[heap'[g].identifiers[call'.identifier]].initializedRelationships[call'.name]
       ]_vars

\* A lookup returned, without making anything, the Relationship that a push
\* had materialized and a flush has updated since.
MaterializedByPushReturned ==
  /\ call.op = "relationshipStateFor"
  /\ call.allocated = 0
  /\ ret \in RelationshipRefs
  /\ pushed # <<>>
  /\ pushed[1][1] = ret
  /\ heap[ret].canonicalState = pushed[1][2]

\* The identifiers the cache of store "s1" has made, in heap h.
Made1(h) == {i \in DOMAIN h : i.tag = "Identifier" /\ i.store = "s1"}

\* C12: identity uniqueness: no two identifier objects have the same type and
\* the same non-null id; a getOrCreate for a (type, id) that has an identifier
\* returns that very object and makes none; and every RecordData the default
\* store creates for (type, id) carries the one identifier of (type, id).
IdentityUniqueness ==
  /\ [](\A i, j \in Made1(heap) :
          (heap[i].id # Null /\ heap[i].type = heap[j].type /\ heap[i].id = heap[j].id)
            => i = j)
  /\ [](\A r, q \in RecordDataRefs :
          LET i == heap[r].identifier
              j == heap[q].identifier
          IN (heap[i].id # Null /\ heap[i].type = heap[j].type /\ heap[i].id = heap[j].id)
               => i = j)
  /\ [][(call'.op \in {"getOrCreateRecordIdentifier", "createRecordDataFor"}
           /\ call'.id # Null) =>
          LET known == {i \in Made1(heap) :
                          heap[i].type = call'.name /\ heap[i].id = call'.id}
              identifier == IF call'.op = "createRecordDataFor"
                              THEN heap'[ret'].identifier ELSE ret'
          IN /\ identifier \in Made1(heap')
             /\ heap'[identifier].type = call'.name
             /\ heap'[identifier].id = call'.id
             /\ known # {} => /\ identifier \in known
                               /\ Made1(heap') = Made1(heap)
                               /\ heap'[identifier] = heap[identifier]
       ]_vars

\* The store made a second RecordData for a (type, id), asked for with the
\* local id of another identifier, and it carries the identifier of the first.
SecondRecordDataSameIdentifier ==
  /\ call.op = "createRecordDataFor"
  /\ call.id # Null
  /\ call.allocated = 1
  /\ call.lid # Null
  /\ call.lid # heap[ret].identifier.identifier
  /\ IdentifierOf("s1", call.lid) \in Refs
  /\ \E r \in RecordDataRefs \ {ret} : heap[r].identifier = heap[ret].identifier

\* C13: merge preserves edges: a successful mergeIdentifier updates the
\* identifier object in place: (type, newId) resolves to the object that was
\* merged, no object is made and no object of the graph is changed, Graph.get
\* and Graph.getImplicit return for it the containers made before the merge,
\* and every relationship that listed it lists it still.
MergePreservesEdges ==
  [][(call'.op = "mergeIdentifier" /\ ret' # IdCollision) =>
       LET merged == call'.this
           resolved == heap'[IdentifierCacheOf(call'.store)].id[<<call'.name, call'.id>>]
           after == [Graphs |-> Graphs', heap |-> heap', backburner |-> backburner',
                     applied |-> applied', ret |-> Undefined]
       IN /\ ret' = merged
          /\ resolved = merged
          /\ heap'[merged] = [heap[merged] EXCEPT !.id = call'.id]
          /\ Refs' = Refs
          /\ \A x \in Refs \ {merged, IdentifierCacheOf(call'.store)} : heap'[x] = heap[x]
          /\ \A g \in GraphRefs :
               /\ heap[g].identifiers[merged.identifier] # Undefined =>
                    Graph_get(after, g, resolved.identifier).ret
                      = heap[g].identifiers[merged.identifier]
               /\ heap[g].implicitMap[merged.identifier] # Undefined =>
                    Graph_getImplicit(after, g, resolved.identifier).ret
                      = heap[g].implicitMap[merged.identifier]
          /\ \A r \in RelationshipRefs :
               merged.identifier \in Members(heap[r].canonicalMembers) =>
                 /\ heap'[r].canonicalMembers = heap[r].canonicalMembers
                 /\ resolved.identifier \in Members(heap'[r].canonicalMembers)
    ]_vars

\* An identifier made without an id was looked up in the graph both ways,
\* became a member of another record's comments, and was then merged with
\* its id.
MergedWhileMember ==
  /\ call.op = "mergeIdentifier"
  /\ ret = call.this
  /\ heap[ret].id # Null
  /\ \E g \in GraphRefs :
       /\ heap[g].identifiers[ret.identifier] # Undefined
       /\ heap[g].implicitMap[ret.identifier] # Undefined
  /\ \E r \in RelationshipRefs :
       /\ heap[r].identifier # ret.identifier
       /\ ret.identifier \in Members(heap[r].canonicalMembers)

\* C14: mergeIdentifier signals an error when (type, newId) is mapped to a
\* different identifier: the caller gets the error, and the two identifiers
\* are left as they were, each with its own id.
MergeCollisionSignalled ==
  [][call'.op = "mergeIdentifier" =>
       LET others == {i \in Made1(heap) \ {call'.this} :
                        heap[i].type = call'.name /\ heap[i].id = call'.id}
       IN IF others # {}
            THEN /\ ret' = IdCollision
                 /\ heap' = heap
                 /\ heap'[call'.this].id = Null
                 /\ \A i \in others : heap'[i].id = call'.id
            ELSE /\ ret' = call'.this
                 /\ heap'[call'.this].id = call'.id
    ]_vars

\* A merge was refused: the id belongs to another identifier of the type.
MergeRefused ==
  /\ call.op = "mergeIdentifier"
  /\ ret = IdCollision
  /\ heap[call.this].id = Null
  /\ \E i \in Made1(heap) \ {call.this} :
       heap[i].type = heap[call.this].type /\ heap[i].id = call.id

\* The payload applied last to `relationship`, NoPayload if none was.
LastApplied(relationship, history) ==
  LET own == Of(relationship, history)
  IN IF own = <<>> THEN NoPayload ELSE own[Len(own)][2]

\* C15: no staleness rejection: a push queues its payload whatever its
\* relationship has already been given, also a payload of an older request
\* than the one applied; a flush applies it like any other, and the canonical
\* state of a relationship is the payload applied to it last (last write wins).
LateResponseApplied ==
  /\ [](\A r \in RelationshipRefs : heap[r].canonicalState = LastApplied(r, applied))
  /\ [][\A g \in GraphRefs :
          /\ PushStep(g) =>
               LET entry == pushed'[Len(pushed')]
                   kind == heap'[entry[1]].kind
               IN /\ entry[2] = call'.payload
                  /\ heap'[g]._queued[kind] = heap[g]._queued[kind] \o entry
          /\ FlushStep(g) =>
               /\ applied' = applied \o Pairs(heap[g]._queued.hasMany)
                                     \o Pairs(heap[g]._queued.belongsTo)
               /\ \A r \in RelationshipRefs :
                    heap'[r].canonicalState = LastApplied(r, applied')
       ]_vars

\* The response of the first request arrived after the response of a later
\* request for the same relationship had been applied, and was applied over it.
OlderPayloadAppliedLast ==
  \E r \in RelationshipRefs :
    /\ Len(Of(r, applied)) >= 2
    /\ heap[r].canonicalState = 1
    /\ lastFlush.batch = <<<<r, 1>>>>

\* The canonical state of a relationship in heap h: the document applied
\* last, the members, and whether members were received.
Canonical(h, r) ==
  <<h[r].canonicalState, h[r].canonicalMembers, h[r].hasReceivedCanonical>>

\* C16: canonical state changes only inside Graph.flush: a step that is not
\* a run of flush (a push, a lookup of a container, dictionary or
\* relationship, a local edit, a rollback) hands no update to a relationship
\* and leaves the canonical state of every relationship as it was; a
\* relationship it materializes has no canonical state yet.
CanonicalChangesOnlyInFlush ==
  [][call'.op \notin {"flush", "scheduledFlush"} =>
       /\ applied' = applied
       /\ \A r \in RelationshipRefs' :
            Canonical(heap', r) =
              IF r \in RelationshipRefs THEN Canonical(heap, r)
              ELSE <<NoPayload, <<>>, FALSE>>
    ]_vars

\* A local removal hid a canonical member of the post's comments, in a graph
\* whose dictionaries were looked up too: the current state differs from the
\* canonical state, which is as the last flush left it.
LocalEditOverCanonical ==
  /\ call.op = "localRemove"
  /\ call.identifier \in Members(heap[call.this].canonicalMembers)
  /\ call.identifier \notin Members(current(heap, call.this))
  /\ heap[call.this].canonicalState = applied[Len(applied)][2]
  /\ \E g \in GraphRefs : heap[g].implicitMap["post1"] # Undefined

\* The inverse Relationship of r on member x in heap h, Undefined if it was
\* never materialized.
InverseIn(h, r, x) ==
  LET c == h[h[r].graph].identifiers[x]
  IN IF c = Undefined THEN Undefined
     ELSE h[c].initializedRelationships[InverseOf(h[r].key)]

\* C17: a canonical update applied by flush updates the inverse relationship
\* in the same pass and queues nothing: every canonical member of a
\* relationship has the owner as canonical member of its inverse in every
\* state between operations, and a flush applies each queued entry once and
\* ends with both queues empty, _nextFlush reset and no flush scheduled by it.
InverseAppliedDirectly ==
  /\ [](\A r \in RelationshipRefs : \A x \in Members(heap[r].canonicalMembers) :
          LET inverse == InverseIn(heap, r, x)
          IN /\ inverse \in RelationshipRefs
             /\ heap[r].identifier \in Members(heap[inverse].canonicalMembers))
  /\ [][\A g \in GraphRefs : FlushStep(g) =>
          /\ heap'[g]._queued = EmptyQueued
          /\ heap'[g]._nextFlush = FALSE
          /\ Len(applied') = Len(applied) + lastFlush'.queued
          /\ backburner' = IF call'.op = "scheduledFlush"
                             THEN [backburner EXCEPT ![call'.store] = Tail(@)]
                             ELSE backburner
       ]_vars

\* A flush applied a member list to the post's comments and, in the same
\* step, made the post the canonical value of a comment's `post`, a
\* relationship no update was ever pushed for.
InverseUpdatedByFlush ==
  /\ call.op \in {"flush", "scheduledFlush"}
  /\ lastFlush.queued > 0
  /\ \E r \in RelationshipRefs :
       /\ heap[r].kind = "belongsTo"
       /\ Of(r, pushed) = <<>>
       /\ heap[r].canonicalMembers = <<"post1">>
       /\ heap[r].hasReceivedCanonical
  /\ \A g \in GraphRefs : heap[g]._queued = EmptyQueued /\ ~heap[g]._nextFlush

\* The local edits.
LocalEdits == {"localAdd", "localRemove", "localSet"}

\* C18: inverse symmetry of local edits: right after localAdd of B to A's
\* to-many relationship, B is in its current state and the current value of
\* B's inverse to-one relationship is A; right after localSet of A on B's
\* to-one relationship, its current value is A and B is in the current state
\* of A's inverse to-many relationship; in every state the current states of
\* the two sides agree; and a local edit leaves the queue of the graph, its
\* _nextFlush and the run loop's queue as they were.
LocalEditsMirrored ==
  /\ [](\A r \in RelationshipRefs : \A x \in Members(current(heap, r)) :
          LET inverse == InverseIn(heap, r, x)
          IN /\ inverse \in RelationshipRefs
             /\ heap[r].identifier \in Members(current(heap, inverse)))
  /\ [][ /\ call'.op = "localAdd" =>
              LET inverse == InverseIn(heap', call'.this, call'.identifier)
              IN /\ call'.identifier \in Members(current(heap', call'.this))
                 /\ inverse \in RelationshipRefs'
                 /\ current(heap', inverse) = <<heap'[call'.this].identifier>>
         /\ (call'.op = "localSet" /\ call'.identifier # Null) =>
              LET inverse == InverseIn(heap', call'.this, call'.identifier)
              IN /\ current(heap', call'.this) = <<call'.identifier>>
                 /\ inverse \in RelationshipRefs'
                 /\ heap'[call'.this].identifier \in Members(current(heap', inverse))
         /\ call'.op \in LocalEdits =>
              /\ backburner' = backburner
              /\ applied' = applied
              /\ \A g \in GraphRefs :
                   /\ heap'[g]._queued = heap[g]._queued
                   /\ heap'[g]._nextFlush = heap[g]._nextFlush
       ]_vars

\* A comment that is no canonical member was added locally to the post's
\* comments while a pushed update waited in the queue, and the comment's post
\* is the post at once.
LocalAddSeenOnInverse ==
  /\ call.op = "localAdd"
  /\ call.identifier \notin Members(heap[call.this].canonicalMembers)
  /\ current(heap, InverseIn(heap, call.this, call.identifier)) = <<"post1">>
  /\ heap[InverseIn(heap, call.this, call.identifier)].canonicalMembers = <<>>
  /\ \E g \in GraphRefs : heap[g]._queued # EmptyQueued

\* The Relationship registered for (identifier, propertyName) in the graph of
\* store "s1" in heap h.
Rel(h, identifier, propertyName) == Registered(Graphs, h, "s1", identifier, propertyName)

\* Post#1.comments holds Comment#10 and Comment#11 canonically in heap h.
TwoMembers(h) ==
  /\ Rel(h, "post1", "comments") # Undefined
  /\ h[Rel(h, "post1", "comments")].canonicalMembers = <<"comment10", "comment11">>

\* No relationship has a local overlay in heap h.
NoOverlay(h) ==
  \A r \in {x \in DOMAIN h : x.tag = "Relationship"} :
    h[r].localAdded = <<>> /\ h[r].localRemoved = <<>>

\* Both sides show the two-member state in heap h.
TwoMemberState(h) ==
  /\ current(h, Rel(h, "post1", "comments")) = <<"comment10", "comment11">>
  /\ current(h, Rel(h, "comment10", "post")) = <<"post1">>
  /\ current(h, Rel(h, "comment11", "post")) = <<"post1">>

\* Comment#10 is locally removed from Post#1.comments in heap h, and nothing
\* else is edited.
Comment10Removed(h) ==
  /\ TwoMembers(h)
  /\ h[Rel(h, "post1", "comments")].localAdded = <<>>
  /\ h[Rel(h, "post1", "comments")].localRemoved = <<"comment10">>
  /\ h[Rel(h, "comment10", "post")].localAdded = <<>>
  /\ h[Rel(h, "comment10", "post")].localRemoved = <<"post1">>
  /\ h[Rel(h, "comment11", "post")].localAdded = <<>>
  /\ h[Rel(h, "comment11", "post")].localRemoved = <<>>

\* C19: optimistic removal: once Post#1 was pushed with comments
\* [Comment#10, Comment#11] and flushed, the post of both comments is Post#1;
\* a local removal of Comment#10 from Post#1.comments leaves [Comment#11] as
\* its current state and null as the current post of Comment#10, while
\* Comment#10 stays a canonical member; a rollback on either side then
\* restores the two-member state on both sides.
OptimisticRemoval ==
  /\ []((TwoMembers(heap) /\ NoOverlay(heap)) => TwoMemberState(heap))
  /\ [][ /\ ( /\ call'.op = "localRemove"
               /\ TwoMembers(heap) /\ NoOverlay(heap)
               /\ call'.this = Rel(heap, "post1", "comments")
               /\ call'.identifier = "comment10" ) =>
              /\ current(heap', Rel(heap', "post1", "comments")) = <<"comment11">>
              /\ current(heap', Rel(heap', "comment10", "post")) = <<>>
              /\ current(heap', Rel(heap', "comment11", "post")) = <<"post1">>
              /\ TwoMembers(heap')
              /\ heap'[Rel(heap', "comment10", "post")].canonicalMembers = <<"post1">>
              /\ Comment10Removed(heap')
         /\ ( /\ call'.op = "rollback"
               /\ Comment10Removed(heap)
               /\ call'.this \in {Rel(heap, "post1", "comments"),
                                   Rel(heap, "comment10", "post")} ) =>
              /\ TwoMemberState(heap')
              /\ TwoMembers(heap')
              /\ NoOverlay(heap')
       ]_vars

\* Comment#10 has just been removed locally from the flushed two-member
\* comments of Post#1: it is hidden on both sides and still canonical.
Comment10Hidden ==
  /\ call.op = "localRemove"
  /\ applied # <<>>
  /\ Comment10Removed(heap)
  /\ current(heap, Rel(heap, "post1", "comments")) = <<"comment11">>
  /\ current(heap, Rel(heap, "comment10", "post")) = <<>>

\* Relationship r has no local overlay in heap h and is not dirty.
Clean(h, r) == h[r].localAdded = <<>> /\ h[r].localRemoved = <<>> /\ ~h[r].isDirty

\* C20: rollback round-trip: a local add changes no canonical state, and a
\* rollback() of a to-many relationship leaves as its current state the
\* canonical members it had before, in the same order, with an empty overlay
\* and a cleared dirty flag; the inverse relationship of every member the
\* overlay named is rolled back in the same way.
RollbackRoundTrip ==
  [][ /\ (call'.op = "localAdd") =>
            /\ \A r \in RelationshipRefs :
                  heap'[r].canonicalMembers = heap[r].canonicalMembers
            /\ call'.identifier \in Members(current(heap', call'.this))
      /\ (call'.op = "rollback" /\ heap[call'.this].kind = "hasMany") =>
            LET this == call'.this
                touched == heap[this].localAdded \o heap[this].localRemoved
            IN /\ current(heap', this) = heap[this].canonicalMembers
               /\ heap'[this].canonicalMembers = heap[this].canonicalMembers
               /\ Clean(heap', this)
               /\ \A k \in 1..Len(touched) :
                    LET inverse == InverseRef(heap, this, touched[k])
                    IN /\ Clean(heap', inverse)
                       /\ heap'[inverse].canonicalMembers = heap[inverse].canonicalMembers
                       /\ current(heap', inverse) = heap[inverse].canonicalMembers
    ]_vars

\* Post#1.comments has just been rolled back to its canonical [Comment#10];
\* Comment#11, which no payload named, has a materialized post and is a
\* member of neither side.
RolledBackToCanonical ==
  /\ call.op = "rollback"
  /\ call.this = Rel(heap, "post1", "comments")
  /\ heap[call.this].canonicalMembers = <<"comment10">>
  /\ current(heap, call.this) = <<"comment10">>
  /\ Rel(heap, "comment11", "post") # Undefined
  /\ heap[Rel(heap, "comment11", "post")].canonicalMembers = <<>>
  /\ current(heap, Rel(heap, "comment11", "post")) = <<>>
  /\ current(heap, Rel(heap, "comment10", "post")) = <<"post1">>

\* The member list of the payload applied last to relationship r, among the
\* payloads that carried one.
LastMembers(r) ==
  LET withData == SelectSeq(Of(r, applied),
                            LAMBDA e : /\ Document(e[2]) \in Refs
                                       /\ heap[Document(e[2])].hasData)
  IN IF withData = <<>> THEN <<>> ELSE heap[Document(withData[Len(withData)][2])].data

LinksOnly == {k \in 1..Len(pushed) : Document(k) \in Refs /\ ~heap[Document(k)].hasData}

\* What the server is known to have said of relationship r in heap h.
Known(h, r) == <<h[r].canonicalMembers, h[r].hasReceivedCanonical>>

\* C22: partial payload: a payload with links or meta only, pushed and
\* flushed, leaves hasReceivedCanonical as it was (false stays false) and
\* every canonical member in place: applying one changes the members and the
\* flag of no relationship, and neither does a flush whose batch holds
\* nothing else.
PartialPayloadKeepsMembers ==
  /\ [](\A r \in RelationshipRefs : \A k \in LinksOnly :
          LET after == Relationship_push(Mem, r, k).heap
          IN \A x \in RelationshipRefs : Known(after, x) = Known(heap, x))
  /\ [][\A g \in GraphRefs :
          (/\ FlushStep(g)
           /\ \A e \in Range(lastFlush'.batch) : e[2] \in LinksOnly) =>
             \A r \in RelationshipRefs : Known(heap', r) = Known(heap, r)
       ]_vars

\* A flush applied a links-only payload to the comments of Post#1, which
\* hold the two members of an earlier payload.
LinksOnlyOverTwoMembers ==
  /\ call.op \in {"flush", "scheduledFlush"}
  /\ Len(lastFlush.batch) = 1
  /\ lastFlush.batch[1][2] \in LinksOnly
  /\ heap[lastFlush.batch[1][1]].kind = "hasMany"
  /\ heap[lastFlush.batch[1][1]].canonicalState = lastFlush.batch[1][2]
  /\ Len(heap[lastFlush.batch[1][1]].canonicalMembers) = 2
  /\ heap[lastFlush.batch[1][1]].hasReceivedCanonical

\* Whether the update of payload p pushes a follow-up, in heap h.
HasThen(h, p) == Document(p) \in DOMAIN h /\ h[Document(p)].then # <<>>

\* The graphs with a flush scheduled in the run loop of their store and not
\* yet run.
Scheduled == UNION {Range(backburner[s]) : s \in Stores}

\* C25: no queued update is stranded: whenever a queue of a graph is not
\* empty, its _nextFlush is true and a deferred flush of it is scheduled and
\* has not run yet; and a flush ends with both queues empty and _nextFlush
\* false, unless a push was made during it.
NoStrandedUpdate ==
  /\ [](\A g \in GraphRefs :
          /\ heap[g]._queued # EmptyQueued => heap[g]._nextFlush
          /\ heap[g]._nextFlush => g \in Scheduled)
  /\ [][\A g \in GraphRefs :
          (/\ FlushStep(g)
           /\ \A x \in Range(lastFlush'.batch) : ~HasThen(heap', x[2])) =>
             heap'[g]._queued = EmptyQueued /\ ~heap'[g]._nextFlush
       ]_vars

\* After a direct flush() had emptied the queue with the scheduled flush
\* still to run, a push filled the queue again: _nextFlush is true and two
\* flushes are scheduled.
QueuedAgainAfterDirectFlush ==
  /\ call.op = "push"
  /\ lastFlush.this = call.this
  /\ lastFlush.queued > 0
  /\ Len(applied) < Len(pushed)
  /\ heap[call.this]._nextFlush
  /\ Len(backburner["s1"]) = 2

\* The number of flushes of graph g scheduled in the run loop of its store and
\* not yet run.
Outstanding(g) ==
  Len(SelectSeq(backburner[heap[g].storeWrapper], LAMBDA target : target = g))

\* C26: at most one deferred flush of a graph is outstanding, whatever the
\* interleaving of pushes, scheduled flushes and direct calls of flush(), and
\* _nextFlush is true exactly when a scheduled flush has not run yet.
AtMostOneDeferredFlush ==
  \A g \in GraphRefs :
    /\ Outstanding(g) <= 1
    /\ heap[g]._nextFlush <=> Outstanding(g) > 0

\* C29: the frame of Graph.push(identifier, name, payload): before any flush
\* it materializes the container of the identifier in the identifiers map
\* (kept if there was one) and the named Relationship in it (kept likewise);
\* it appends exactly one (relationship, payload) entry to the queue of the
\* relationship's kind and leaves the other queue, every entry queued before,
\* the implicit map, every other identifier's container and every other
\* object as they were, and applies nothing.
PushFrame ==
  [][\A g \in GraphRefs : (PushStep(g) /\ call'.op = "push") =>
       LET identifier == call'.identifier
           name == call'.name
           before == heap[g].identifiers[identifier]
           container == heap'[g].identifiers[identifier]
           relationship == heap'[container].initializedRelationships[name]
           kind == KindOf(name)
           other == IF kind = "hasMany" THEN "belongsTo" ELSE "hasMany"
       IN /\ container \in RelationshipsRefs'
          /\ before # Undefined => container = before
          /\ before = Undefined => container \notin Refs
          /\ relationship \in RelationshipRefs'
          /\ heap'[relationship].kind = kind
          /\ before # Undefined =>
               \A n \in Names :
                 heap[before].initializedRelationships[n] # Undefined =>
                   heap'[before].initializedRelationships[n] =
                     heap[before].initializedRelationships[n]
          /\ relationship \notin Refs => heap'[relationship].canonicalState = NoPayload
          /\ heap'[g]._queued[kind] = heap[g]._queued[kind] \o <<relationship, call'.payload>>
          /\ heap'[g]._queued[other] = heap[g]._queued[other]
          /\ heap'[g].implicitMap = heap[g].implicitMap
          /\ \A i \in StableRecordIdentifiers \ {identifier} :
               heap'[g].identifiers[i] = heap[g].identifiers[i]
          /\ \A x \in Refs \ {g, container} : heap'[x] = heap[x]
          /\ Refs' \ Refs \subseteq {container, relationship}
          /\ Graphs' = Graphs
          /\ applied' = applied
    ]_vars

\* A push materialized the container and the relationship of a second
\* identifier in a graph that holds the container of the first and an entry
\* queued for it.
PushMaterializedSecondContainer ==
  /\ call.op = "push"
  /\ call.allocated = 2
  /\ Len(pushed) >= 2
  /\ applied = <<>>
  /\ \E i \in Identifiers \ {call.identifier} :
        heap[call.this].identifiers[i] \in RelationshipsRefs
  /\ heap[call.this].identifiers[call.identifier] \in RelationshipsRefs
  /\ heap[call.this].implicitMap[call.identifier] = Undefined

\* C30: the legacy call shape is equivalent to the explicit one: in every
\* state, for every store, record and property name, relationshipsFor(wrapper)
\* and relationshipStateFor(wrapper, propertyName), which take the identifier
\* and the store wrapper from wrapper._internalModel, return the same object
\* and leave the same memory as the calls that name the store wrapper and the
\* identifier, in the helpers with both call shapes and in those with the
\* explicit one only.
LegacyShapeEquivalent ==
  /\ [](\A s \in Stores : \A i \in Identifiers :
          /\ compat_relationshipsFor(Mem, Legacy(s, i), Missing)
                = compat_relationshipsFor(Mem, s, i)
          /\ compat_relationshipsFor(Mem, Legacy(s, i), Missing) = relationshipsFor(Mem, s, i)
          /\ \A n \in Names :
               /\ compat_relationshipStateFor(Mem, Legacy(s, i), n, Missing)
                     = compat_relationshipStateFor(Mem, s, i, n)
               /\ compat_relationshipStateFor(Mem, Legacy(s, i), n, Missing)
                     = relationshipStateFor(Mem, s, i, n))
  /\ [][ /\ call'.op = "legacy/relationshipsFor" =>
              /\ ret' = heap'[Graphs'[call'.store]].identifiers[call'.identifier]
              /\ ret' \in RelationshipsRefs'
              /\ (/\ Graphs[call'.store] # Undefined
                  /\ heap[Graphs[call'.store]].identifiers[call'.identifier] # Undefined)
                   => ret' = heap[Graphs[call'.store]].identifiers[call'.identifier]
         /\ call'.op = "legacy/relationshipStateFor" =>
              /\ ret' = Registered(Graphs', heap', call'.store, call'.identifier, call'.name)
              /\ ret' \in RelationshipRefs'
              /\ Registered(Graphs, heap, call'.store, call'.identifier, call'.name) # Undefined
                   => ret' = Registered(Graphs, heap, call'.store, call'.identifier, call'.name)
       ]_vars

\* The legacy call shape returned the Relationship that a push had
\* materialized and a flush had updated.
LegacyReturnedPushedRelationship ==
  /\ call.op = "legacy/relationshipStateFor"
  /\ call.allocated = 0
  /\ applied # <<>>
  /\ ret = applied[1][1]
  /\ heap[ret].identifier = call.identifier
  /\ heap[ret].key = call.name

\* The entry that the update of entry e pushes, in heap h.
ThenEntry(h, e) ==
  LET then == h[Document(e[2])].then
  IN <<Registered(Graphs, h, "s1", then[1], then[2]), ThenPayload(e[2])>>

\* How often entry e occurs in a sequence of entries.
Count(e, entries) == Len(SelectSeq(entries, LAMBDA x : x = e))

\* C27: a re-entrant push is safe: a Graph.push made from inside an update
\* that a flush is applying is not applied by that flush; it is in the new
\* queue when the flush ends, with _nextFlush true and one new flush
\* scheduled; the next flush applies it; in every state it is either queued
\* once or applied once, never lost and never applied twice.
ReentrantPushSafe ==
  /\ [](\A k \in DOMAIN applied : HasThen(heap, applied[k][2]) =>
          LET e == ThenEntry(heap, applied[k])
          IN /\ e[1] \in RelationshipRefs
             /\ Count(e, applied) + Count(e, Pairs(QueueOf(e[1]))) = 1
             /\ \A j \in DOMAIN applied : applied[j] = e => j > k)
  /\ [][\A g \in GraphRefs : FlushStep(g) =>
          /\ \A x \in Range(Pairs(heap[g]._queued.hasMany))
                        \cup Range(Pairs(heap[g]._queued.belongsTo)) :
                x \in Range(lastFlush'.batch)
          /\ \A x \in Range(lastFlush'.batch) : HasThen(heap', x[2]) =>
                LET e == ThenEntry(heap', x)
                IN /\ e \notin Range(lastFlush'.batch)
                   /\ e \in Range(Pairs(heap'[g]._queued[heap'[e[1]].kind]))
                   /\ heap'[g]._nextFlush
                   /\ backburner'["s1"] =
                        Append(IF call'.op = "scheduledFlush" THEN Tail(backburner["s1"])
                                                              ELSE backburner["s1"], g)
       ]_vars

\* The run loop ran the flush that a push made during an earlier flush had
\* scheduled, and it applied the payload of that push.
ReentrantPushAppliedLater ==
  /\ call.op = "scheduledFlush"
  /\ \E k \in DOMAIN applied :
        /\ HasThen(heap, applied[k][2])
        /\ ThenEntry(heap, applied[k]) \in Range(lastFlush.batch)
        /\ applied[k] \notin Range(lastFlush.batch)
  /\ \A g \in GraphRefs : heap[g]._queued = EmptyQueued

\* Whether payload p is one its relationship refuses, in heap h.
Malformed(h, p) == Document(p) \in DOMAIN h /\ h[Document(p)].malformed

\* The entries in all queues of all graphs.
Queued ==
  UNION {Range(Pairs(heap[g]._queued[kind])) : g \in GraphRefs, kind \in {"hasMany", "belongsTo"}}

\* The pushed entries that are neither queued nor applied.
Discarded == {e \in Range(pushed) : e \notin Queued /\ e \notin Range(applied)}

\* C28: if an update throws during a flush, the flush ends there: the
\* updates of the batch before it stay applied, the rest of the batch is
\* applied neither by this flush nor by a later one, and the queues are empty
\* and _nextFlush false as if the flush had ended normally.
ThrowDiscardsRest ==
  [][ /\ \A g \in GraphRefs : FlushStep(g) =>
            LET batch == Pairs(heap[g]._queued.hasMany) \o Pairs(heap[g]._queued.belongsTo)
                bad == {k \in DOMAIN batch : Malformed(heap, batch[k][2])}
            IN /\ heap'[g]._queued = EmptyQueued
               /\ ~heap'[g]._nextFlush
               /\ IF bad = {}
                    THEN ret' = Undefined /\ applied' = applied \o batch
                    ELSE LET first == CHOOSE k \in bad : \A j \in bad : k <= j
                         IN /\ ret' = MalformedPayload
                            /\ applied' = applied \o SubSeq(batch, 1, first - 1)
                            /\ \A k \in first..Len(batch) :
                                 heap'[batch[k][1]].canonicalState # batch[k][2]
      /\ \A e \in Discarded : e \notin Range(applied')
    ]_vars

\* A flush of three updates threw at the second: the first is applied, the
\* third, which is well-formed, is neither applied nor queued.
ThirdUpdateDiscarded ==
  /\ call.op \in {"flush", "scheduledFlush"}
  /\ ret = MalformedPayload
  /\ lastFlush.queued = 3
  /\ Len(lastFlush.batch) = 1
  /\ \E e \in Discarded : ~Malformed(heap, e[2])
  /\ \A g \in GraphRefs : heap[g]._queued = EmptyQueued /\ ~heap[g]._nextFlush

\* ---------------------------------------------------------------- unloading
\* A step that is an unloadRecord() that went through.
UnloadStep == call'.op = "unloadRecord" /\ ret' = Undefined

\* The Relationships of heap h that are destroyed.
Destroyed(h) == {r \in DOMAIN h : r.tag = "Relationship" /\ h[r].isDestroyed}

Subject ==
  IF call'.op \in {"read", "localAdd", "localSet"}
    THEN heap[call'.this].identifier
    ELSE call'.identifier

\* C24: once a record has been unloaded, every read or write of its record
\* data or of one of its relationships fails with an error.
AccessAfterDestroyFails ==
  [][ ( /\ call'.op \in {"read", "localAdd", "localSet", "getHasMany", "getBelongsTo",
                         "relationshipStateFor", "push"}
        /\ Unloaded(heap, Subject) )
      => ret'.tag = "Error" ]_vars

\* ---------------------------------------------------------------- implicit lookups
\* A step that is a call of implicitRelationshipStateFor.
ImplicitStateStep == call'.op = "implicitRelationshipStateFor"

\* C31: implicitRelationshipStateFor(store, identifier, name), for a name the
\* implicit dictionary of the identifier does not hold, returns undefined and
\* registers nothing under the name; the dictionary it read is the one
\* implicitMap held for the identifier, or a new empty one that implicitMap
\* holds from then on; the identifiers map and every Relationships container,
\* the queues, _nextFlush and the run loop are as before (those of a graph the
\* call made are empty), and so are all other objects.
ImplicitStateLookupFrame ==
  [][ ImplicitStateStep =>
        LET before == Graphs[call'.store]
            g == Graphs'[call'.store]
            held == IF before = Undefined THEN Undefined
                    ELSE heap[before].implicitMap[call'.identifier]
            dict == heap'[g].implicitMap[call'.identifier]
            unregistered == held = Undefined \/ heap[held].entries[call'.name] = Undefined
        IN unregistered =>
             /\ ret' = Undefined
             /\ g # Undefined /\ (before # Undefined => g = before)
             /\ dict # Undefined /\ dict.tag = "RelationshipDict"
             /\ \A n \in Names : heap'[dict].entries[n] = Undefined
             /\ held # Undefined => dict = held
             /\ held = Undefined => dict \notin Refs
             /\ \A i \in StableRecordIdentifiers \ {call'.identifier} :
                   heap'[g].implicitMap[i] =
                     IF before = Undefined THEN Undefined ELSE heap[before].implicitMap[i]
             /\ heap'[g].identifiers =
                   IF before = Undefined THEN [i \in StableRecordIdentifiers |-> Undefined]
                   ELSE heap[before].identifiers
             /\ heap'[g]._queued = IF before = Undefined THEN EmptyQueued ELSE heap[before]._queued
             /\ heap'[g]._nextFlush = (before # Undefined /\ heap[before]._nextFlush)
             /\ backburner' = backburner
             /\ applied' = applied
             /\ \A x \in Refs \ {before} : heap'[x] = heap[x]
             /\ DOMAIN heap' \ Refs \subseteq {g, dict}
    ]_vars

\* The implicit state of Post#1 under "comments" was asked for the first time
\* while its declared relationship of that name existed with an update queued:
\* nothing was returned and one object, the dictionary, was made.
ImplicitLookupBesideDeclared ==
  /\ call.op = "implicitRelationshipStateFor"
  /\ call.identifier = "post1" /\ call.name = "comments"
  /\ call.allocated = 1
  /\ ret = Undefined
  /\ \E g \in GraphRefs :
        /\ heap[g].implicitMap["post1"] # Undefined
        /\ heap[g].identifiers["post1"] # Undefined
        /\ heap[heap[g].identifiers["post1"]].initializedRelationships["comments"] # Undefined
        /\ heap[g]._queued.hasMany # <<>>

\* ---------------------------------------------------------------- queue well-formedness
\* Whether a queue of graph g alternates Relationships of `kind` of that graph
\* with payloads that were pushed for them.
WellFormedQueue(g, kind) ==
  LET queue == heap[g]._queued[kind] IN
  /\ Len(queue) % 2 = 0
  /\ \A k \in 1..(Len(queue) \div 2) :
        LET relationship == queue[2 * k - 1]
            payload == queue[2 * k]
        IN /\ relationship \in RelationshipRefs
           /\ heap[relationship].kind = kind
           /\ heap[relationship].graph = g
           /\ payload \in 1..Len(pushed)
           /\ pushed[payload] = <<relationship, payload>>

\* C32: in every state each of the two queues of every graph has even length
\* and alternates a Relationship of the queue's kind with the payload that was
\* pushed for it; and every flush hands each queued payload to the
\* relationship it was pushed for: what it applies are the pairs of the
\* to-many queue, then those of the to-one queue, and each relationship of
\* the batch holds the payload queued last for it.
QueuesWellFormed ==
  /\ [](\A g \in GraphRefs : \A kind \in {"hasMany", "belongsTo"} : WellFormedQueue(g, kind))
  /\ [][\A g \in GraphRefs : FlushStep(g) =>
          LET batch == Pairs(heap[g]._queued.hasMany) \o Pairs(heap[g]._queued.belongsTo)
          IN /\ applied' = applied \o batch
             /\ \A k \in DOMAIN batch : batch[k] = pushed[batch[k][2]]
             /\ \A k \in DOMAIN batch :
                   (\A j \in DOMAIN batch : j > k => batch[j][1] # batch[k][1])
                     => heap'[batch[k][1]].canonicalState = batch[k][2]
       ]_vars

\* Three updates are queued, two for a to-many and one for a to-one
\* relationship, each in the queue of its kind.
BothQueuesHoldUpdates ==
  \E g \in GraphRefs :
    /\ Len(heap[g]._queued.hasMany) = 4
    /\ Len(heap[g]._queued.belongsTo) = 2
    /\ heap[heap[g]._queued.belongsTo[1]].kind = "belongsTo"
    /\ heap[heap[g]._queued.hasMany[3]].kind = "hasMany"

====
